---- MODULE Spec2Model ----
(***************************************************************************)
(* State-machine model of the connectivity layer of p2p-secure-chat:       *)
(*   - the relay server        (src/src/utils/relay_server.py)             *)
(*   - the connection manager  (src/src/utils/connection_manager.py)       *)
(* Every "await" of the source is a step boundary: the code between two    *)
(* awaits of one task is one atomic action, tasks interleave at awaits.    *)
(***************************************************************************)
EXTENDS Naturals, Integers, Sequences, FiniteSets, TLC

(* ------------------------------ bounds -------------------------------- *)
\* websocket connections the relay accepts during one run
NConn == 3
\* connections of the runs that include the clock and the heartbeat sweep
NSweepConn == 2

\* connections, numbered in the order in which the relay accepts them
Conns == 1..NConn
\* "no connection" / "no session"
None == 0
\* peer ids, in the order in which connections first claim them
IdSeq == <<"a", "b", "c">>
PeerIds == {IdSeq[i] : i \in 1..Len(IdSeq)}
Payloads == {"p1", "p2"}
Timestamps == {1, 2}
\* the "timestamp" key is absent from the auth frame
NoTimestamp == 0
\* a key absent from a JSON object (dict.get(...) is None, `k in d` is false)
Absent == "<absent>"
\* RelayServer(secret_key=...): "" is the constructor's default (no auth)
Secrets == {"", "k1", "k3"}
\* a key the relay is not configured with
ForeignKey == "k2"

(* ============================ RELAY SERVER ============================ *)

VARIABLES
    secret_key,  \* RelayServer.secret_key
    peers,       \* RelayServer.peers: peer id -> connection (None: no key)
    pc,          \* position of the _handle_connection task of each websocket
    pid,         \* local peer_id of the task / PeerConnection.peer_id
    ws,          \* state of each websocket: "none", "open", "closed"
    cp,          \* PeerConnection.connected_peers of each connection
    expired,     \* time.time() - PeerConnection.last_heartbeat > 30
    tgt,         \* local `target` of _handle_connect_request across its await
    tdVisited,   \* ids the set iterator of _handle_disconnect has yielded
    tdSize,      \* size of connected_peers when that iterator was created
    sweepTodo,   \* timeout_peers of _check_heartbeats still to be closed
    sent         \* frames handed to websocket.send by the last step

relayVars == <<secret_key, peers, pc, pid, ws, cp, expired, tgt, tdVisited,
               tdSize, sweepTodo, sent>>

(* ========================= CONNECTION MANAGER ========================= *)

NSock == 3       \* sockets the manager opens or accepts in a run
NCall == 2       \* connect_to_peer calls of the application in flight at once
Socks == 1..NSock
Callers == 1..NCall
NoSock == 0
CMIds == {IdSeq[1], IdSeq[2]}
\* ConnectionManager.max_reconnect_attempts
max_reconnect_attempts == 3

VARIABLES
    listener,         \* ConnectionManager.server: "none", "open", "closed"
    cm_peers,         \* ConnectionManager.peers: peer id -> socket of its writer
    sock,             \* each socket: "unused", "open", "closed"
    owner,            \* the peer_id a socket was opened for or authenticated as
    hpc,              \* position of the _handle_connection task of a socket
    call,             \* connect_to_peer calls of the application in flight
    reconnect_tasks,  \* keys of ConnectionManager.reconnect_tasks
    loop,             \* the _reconnect_loop task of each peer id
    stopPc,           \* position of stop()
    stopTodo,         \* sockets of stop()'s list(self.peers.items()) not yet closed
    kind              \* how the connection of a socket was made: "direct",
                      \* "stun", "established", "inbound" ("none": not made)

cmVars == <<listener, cm_peers, sock, owner, hpc, call,
            reconnect_tasks, loop, stopPc, stopTodo, kind>>

(* ------------- messages of the Connection Manager's sockets ------------ *)

NSend == 2       \* send_message calls of the application in flight at once
MaxSend == 4     \* send_message calls of the application in a run
MaxRecv == 2     \* frames the remote peers send to accepted connections
Senders == 1..NSend
\* ConnectionManager.user_id of the manager modelled
user_id == IdSeq[3]
AppContents == <<"m1", "m2">>

VARIABLES
    stream,       \* per socket: the frames written to it and not yet read by
                  \* the other end
    rauth,        \* per outbound socket: peer_id of the _handle_connection
                  \* task the remote manager runs for it
    handled,      \* the calls of message_handler, in order, at the manager
                  \* that read the frame
    snd,          \* send_message calls of the application
    outcome,      \* per application message: "unsent", "written", "True",
                  \* "False", "raised"
    firstFrame,   \* per accepted socket: what its first frame was
    remote,       \* per accepted socket: the manager that connected
    nsend,        \* send_message calls made
    nrecv         \* frames received on accepted connections

msgVars == <<stream, rauth, handled, snd, outcome, firstFrame, remote,
             nsend, nrecv>>

(* ------------------- NetworkManager: heartbeat of a peer ------------------- *)

NNMPeer == 2     \* peers that connect to the NetworkManager
NMPeers == 1..NNMPeer
\* `await asyncio.sleep(30)` of heartbeat_check: one tick of the clock
HeartbeatInterval == 1
\* the silence the clock counts up to
MaxSilence == 2 * HeartbeatInterval + 1

VARIABLES
    connected_peers,  \* NetworkManager.connected_peers: the ids in the table
    nm_ws,            \* the websocket of a peer: "none", "open", "closed"
    heartbeat_tasks,  \* position of heartbeat_check of a peer: "none", "send",
                      \* "sleep", "ended"
    silent            \* ticks since a frame of the peer was last received

nmVars == <<connected_peers, nm_ws, heartbeat_tasks, silent>>

(* ------------------------ frames on a byte stream ------------------------ *)

MaxValueLen == 2     \* characters of a string value of a message
MaxMsgs == 2         \* messages written to one stream
\* reader._limit: 1024 * 1024 bytes in the code, FrameLimit characters here
FrameLimit == 5
\* the characters: a letter, newline, double quote, backslash
Chars == {"n", "NL", "Q", "B"}

VARIABLES
    fr_out,      \* the messages the application sends, in order
    fr_res,      \* what send_message returned for the messages sent so far
    fr_wire,     \* bytes written and not yet arrived
    fr_buf,      \* the buffer of the receiver's StreamReader
    fr_in,       \* the messages handed to the receiver's message handler
    fr_pc        \* the receiver's _handle_connection: "read", "closed"

frVars == <<fr_out, fr_res, fr_wire, fr_buf, fr_in, fr_pc>>

(* connect_to_peer, one address at a time *)
\* bound: the bindings _get_stun_bindings has cached
MaxStun == 2
StunAddrs == {"m1", "m2"}
DirectAddr == "peer_addr"
VARIABLES
    stun_results,   \* self.stun_results: the mapped_address of each binding
    ct,             \* the connect_to_peer call of the application
    ct_tried        \* the addresses the call has awaited a connection to
ctVars == <<stun_results, ct, ct_tried>>

(* the STUN client: XOR-MAPPED-ADDRESS *)
\* bounds: the octets addresses are made of and the ports of the inputs
ByteSamples == {0, 18, 33, 66, 164, 255}
PortSamples == {0, 1, 3478, 8466, 32768, 65535}
VARIABLES
    xa_addr,    \* the reflexive address a of the binding, as its four octets
    xa_port,    \* its port p
    xa_data,    \* the value of the XOR-MAPPED-ADDRESS attribute received
    xa_res      \* what _parse_xor_mapped_address returned for it
stunVars == <<xa_addr, xa_port, xa_data, xa_res>>

(* the TURN client *)
\* bound: the calls of the client's operations in progress at a time
NTurnCall == 2
TurnCalls == 1..NTurnCall
TurnIPs == {"ip1", "ip2"}
VARIABLES
    relayed_addr,   \* self.relayed_addr, Absent for None
    permissions,    \* self.permissions: a set of peer IPs
    tc,             \* the calls of allocate, create_permission and send_data
    turn_sent,      \* the messages the last step handed to the socket
    cp_granted      \* the IPs for which a create_permission call has
                    \* received a CREATE_PERMISSION_RESPONSE
turnVars == <<relayed_addr, permissions, tc, turn_sent, cp_granted>>

(* node discovery *)
\* bound: the seconds the clock of a run advances
MaxTime == 3
\* self.node_timeout, in units of 30 s
node_timeout == 2
OwnIP == "10.0.0.1"
OtherIPs == {"10.0.0.2", "10.0.0.3"}
NodePorts == {0, 7000}
VARIABLES
    node_port,      \* self.node_port
    active_nodes,   \* self.active_nodes: node_addr -> {ip, port, last_seen}
    d_now,          \* the clock
    d_own,          \* whether a broadcast of this node is on its way back
    d_result        \* what the last get_active_nodes call returned
discVars == <<node_port, active_nodes, d_now, d_own, d_result>>

(* NetworkManager: the tables and stop() *)
\* bound: the connections the NetworkManager accepts in a run
NNMConn == 3
NMConns == 1..NNMConn
NMIds == {"u1", "u2"}
NoConn == 0
VARIABLES
    nt_ws,      \* the websocket of a connection: "none", "open", "closed"
    nt_id,      \* peer_id of the handle_connection of a connection
    nt_pc,      \* its handle_connection: "none", "serve", "done"
    nt_peers,   \* self.connected_peers: id -> connection, NoConn for no key
    nt_tasks,   \* self.heartbeat_tasks: id -> the connection whose
                \* heartbeat_check task is stored, NoConn for no key
    nt_hb,      \* the heartbeat_check task of a connection: "none",
                \* "running", "ended", "cancelled"
    nt_server,  \* self.server: "open", "closed"
    nt_stop     \* the stop() call
ntVars == <<nt_ws, nt_id, nt_pc, nt_peers, nt_tasks, nt_hb, nt_server, nt_stop>>

(* NetworkManager.start: the search for a port *)
\* network.py l.734-735
BasePort == 8000
max_attempts == 100
\* the ports of the host that may be free when start() runs
ProbeSamples == {8000, 8001, 8050, 8099, 8100, 8101}
VARIABLES
    pp_bindable,  \* the ports on which bind() and listen() succeed
    pp_pc,        \* start(): "idle", "probe", "serve", "listening",
                  \* "no_port" (RuntimeError), "serve_failed"
    pp_port,      \* port
    pp_attempt,   \* attempt
    pp_probed,    \* the ports given to test_socket.bind, in order
    pp_server     \* self.server: TRUE when websockets.serve has returned one
ppVars == <<pp_bindable, pp_pc, pp_port, pp_attempt, pp_probed, pp_server>>

(* send_message: the on-demand establishment *)
\* bound: the ports _establish_connection scans, standing for
\* range(8000, 9000)
NEstPort == 3
EstPorts == 1..NEstPort
\* what listens on a port: nothing, a Connection Manager, a server that
\* answers the auth frame with an auth_reply frame, one that answers with a
\* frame of another type, one that answers with a line that is not JSON
EstHosts == {"none", "manager", "replier", "wrongtype", "garbled"}
NoEntry == 0
StaleEntry == 0 - 1
VARIABLES
    es_host,      \* per port: what listens there
    es_entry,     \* self.peers[peer_id]: NoEntry, StaleEntry (an entry whose
                  \* connection is closing) or the port its connection leads to
    es_pc,        \* send_message: "idle", "connect" (in open_connection),
                  \* "reply" (in readuntil), "drain", "returned"
    es_port,      \* port of _establish_connection
    es_calls,     \* the calls of _establish_connection this send_message made
    es_writer,    \* per port: the writer opened to it: "none", "open", "closed"
    es_in,        \* per port: the frames written to it and not read there
    es_out,       \* per port: the frames its listener answered, not read here
    es_admitted,  \* per port: the manager there has admitted this manager
    es_handled,   \* per port: the manager there handed the message to its handler
    es_result     \* what send_message returned: "none", "True", "False"
esVars == <<es_host, es_entry, es_pc, es_port, es_calls, es_writer, es_in,
            es_out, es_admitted, es_handled, es_result>>

(* _get_stun_bindings *)
\* self.stun_servers, connection_manager.py l.37-42
stun_servers == <<"blackberry", "voipgate", "qq", "miwifi">>
\* what a query of a server ends in: connect() raises, the send raises, no
\* response within the timeout, a response that does not unpack, a response of
\* another type, a Binding Response with a mapped address
QueryOutcomes == {"connect_error", "send_error", "timeout", "malformed",
                  "wrong_type", "binding"}
VARIABLES
    sb_outcome,   \* per server: what a query of it ends in
    sb_pc,        \* _get_stun_bindings: "idle", "loop", "returned", "raised"
    sb_next,      \* the index of the server the loop is at
    sb_queried,   \* the servers a StunClient was made for, in order
    sb_added,     \* the bindings appended to self.stun_results by this call
    successful_bindings
sbVars == <<sb_outcome, sb_pc, sb_next, sb_queried, sb_added,
            successful_bindings>>

(* TurnClient.connect and allocate *)
\* what _receive and unpack give for a request: no datagram within the
\* timeout, bytes that do not unpack, an Allocate error response with REALM
\* and NONCE, one without them, an Allocate success response with an
\* XOR-RELAYED-ADDRESS that parses, one without, a message of another type
AllocAnswers == {"timeout", "unparsable", "error_realm_nonce", "error_bare",
                 "success_relayed", "success_bare", "other"}
\* bound: the TurnClient objects of a run, one for each server tried
NTurnClient == 2
TurnClients == 1..NTurnClient
\* per client:
VARIABLES
    ta_creds,     \* username and password were given to the constructor
    ta_pc,        \* connect(): "idle", "recv1", "recv2", "returned", "raised"
    ta_sent,      \* the Allocate Requests sent, each the set of its attributes
    ta_answers,   \* the answers received, in order
    ta_realm,     \* self.realm and self.nonce: "None", or "bytes"
    ta_relayed,   \* self.relayed_addr
    ta_allocate   \* what allocate() returned: "not_called", "None", "allocation"
taVars == <<ta_creds, ta_pc, ta_sent, ta_answers, ta_realm, ta_relayed,
            ta_allocate>>

(* NodeDiscovery.start and stop *)
\* the tasks the discovery creates, and tasks of other components on the
\* same event loop
OwnTasks == {"broadcast_presence", "listen_for_nodes"}
OtherTasks == {"reconnect_loop", "handle_connection", "heartbeat_check"}
VARIABLES
    ds_task,      \* per task: "none", "running", "done", "cancelled"
    ds_sock,      \* self.sock: "none", "open", "closed"
    ds_running,   \* self.is_running
    ds_pc         \* stop(): "idle", "gather", "returned"
dsVars == <<ds_task, ds_sock, ds_running, ds_pc>>

(* StunClient.get_binding *)
\* the values of the 12 random bytes of a transaction id
TransactionIds == {"t1", "t2", "t3"}
\* the datagrams that may arrive on the client's socket
StunDatagrams ==
    [message_type : {"BINDING_RESPONSE", "BINDING_ERROR_RESPONSE", "BINDING_REQUEST"},
     cookie_ok : BOOLEAN,
     transaction_id : TransactionIds,
     mapped : {"none", "address"}]
NoDatagram == [message_type |-> "none", cookie_ok |-> FALSE,
               transaction_id |-> "none", mapped |-> "none"]
VARIABLES
    gb_pc,        \* get_binding: "idle", "receive", "returned"
    gb_request,   \* transaction_id of the request sent
    gb_response,  \* the datagram _receive returned
    gb_result     \* what get_binding returned: "none", "None", "binding"
gbVars == <<gb_pc, gb_request, gb_response, gb_result>>

\* the parts added to the model last
ext2Vars == <<gbVars, dsVars, taVars, sbVars, esVars, ppVars, ntVars>>
\* the parts modelled before them
oldVars == <<relayVars, cmVars, msgVars, nmVars, frVars, ctVars, stunVars,
             turnVars, discVars>>

notNTVars == <<oldVars, ppVars, esVars, sbVars, taVars, dsVars, gbVars>>
notPPVars == <<oldVars, ntVars, esVars, sbVars, taVars, dsVars, gbVars>>
notESVars == <<oldVars, ntVars, ppVars, sbVars, taVars, dsVars, gbVars>>
notSBVars == <<oldVars, ntVars, ppVars, esVars, taVars, dsVars, gbVars>>
notTAVars == <<oldVars, ntVars, ppVars, esVars, sbVars, dsVars, gbVars>>
notDSVars == <<oldVars, ntVars, ppVars, esVars, sbVars, taVars, gbVars>>
notGBVars == <<oldVars, ntVars, ppVars, esVars, sbVars, taVars, dsVars>>

\* the state of the parts that are not the Connection Manager's tables
extVars == <<ctVars, stunVars, turnVars, discVars, ext2Vars>>

\* what a specification of one component leaves alone
notRelayVars == <<cmVars, msgVars, nmVars, frVars, extVars>>
notCTVars == <<relayVars, msgVars, nmVars, frVars, stunVars, turnVars, discVars, ext2Vars>>
notStunVars == <<relayVars, cmVars, msgVars, nmVars, frVars, ctVars, turnVars, discVars, ext2Vars>>
notTurnVars == <<relayVars, cmVars, msgVars, nmVars, frVars, ctVars, stunVars, discVars, ext2Vars>>
notDiscVars == <<relayVars, cmVars, msgVars, nmVars, frVars, ctVars, stunVars, turnVars, ext2Vars>>
notCMVars == <<relayVars, msgVars, nmVars, frVars, extVars>>
notMsgVars == <<relayVars, nmVars, frVars, extVars>>
notNMVars == <<relayVars, cmVars, msgVars, frVars, extVars>>
notFrVars == <<relayVars, cmVars, msgVars, nmVars, extVars>>

(* ------------------------------ frames -------------------------------- *)
\* frames a client can put on its websocket after authenticating
BadJson == [type |-> "<badjson>", target_id |-> Absent, data |-> Absent]
ClientFrames ==
    {[type |-> "heartbeat", target_id |-> Absent, data |-> Absent],
     [type |-> "bogus", target_id |-> Absent, data |-> Absent],
     BadJson}
    \cup [type : {"connect", "disconnect"}, target_id : PeerIds \cup {Absent},
          data : {Absent}]
    \cup [type : {"data"}, target_id : PeerIds \cup {Absent},
          data : Payloads \cup {Absent}]

\* frames the relay writes
OutFrame(type, peer_id, target_id, data, success) ==
    [type |-> type, peer_id |-> peer_id, target_id |-> target_id,
     data |-> data, success |-> success, error |-> Absent]
\* the "error" text of a refused connect_response
NoSuchTarget == "target peer does not exist"
HeartbeatReply == OutFrame("heartbeat", Absent, Absent, Absent, Absent)
ConnectResponse(t, ok) ==
    [OutFrame("connect_response", Absent, t, Absent, ok)
        EXCEPT !.error = IF ok THEN Absent ELSE NoSuchTarget]
PeerConnected(p) == OutFrame("peer_connected", p, Absent, Absent, Absent)
PeerDisconnected(p) == OutFrame("peer_disconnected", p, Absent, Absent, Absent)
DataFrame(p, d) == OutFrame("data", p, Absent, d, Absent)

\* websocket.send(frame) on connection c: raises ConnectionClosed unless open
SendOk(c) == ws[c] = "open"
Sent(c, frame) == [to |-> c, frame |-> frame, ok |-> SendOk(c)]

(* --------------------------- authentication --------------------------- *)
\* HMAC-SHA256 as an ideal MAC: distinct (key, message) give distinct digests
Hmac(key, msg) == "hmac-sha256(" \o key \o "," \o msg \o ")"

_generate_token(peer_id, timestamp) ==
    IF secret_key = "" THEN ""
    ELSE Hmac(secret_key, peer_id \o ":" \o ToString(timestamp))

\* a verification that does not bind the token to the frame's timestamp
_verify_token_any_timestamp(peer_id, timestamp, token) ==
    IF secret_key = "" THEN TRUE
    ELSE \E t \in Timestamps : token = _generate_token(peer_id, t)

_verify_token(peer_id, timestamp, token) ==
    IF secret_key = "" THEN TRUE
    ELSE token = _generate_token(peer_id, timestamp)

Tokens ==
    {Hmac(k, p \o ":" \o ToString(t)) :
        k \in (Secrets \ {""}) \cup {ForeignKey}, p \in PeerIds, t \in Timestamps}
    \cup {""}
AuthFrames ==
    [peer_id : PeerIds \cup {Absent}, timestamp : Timestamps \cup {NoTimestamp},
     token : Tokens \cup {Absent}]

WellFormed(f) ==
    f.peer_id # Absent /\ f.timestamp # NoTimestamp /\ f.token # Absent

Registered(c) == pid[c] \in PeerIds /\ peers[pid[c]] = c

\* ids the c-th connection can claim: ids are interchangeable, so a
\* connection claims an id already claimed or the next fresh one
ClaimableIds(c) == {IdSeq[i] : i \in 1..(IF c < Len(IdSeq) THEN c ELSE Len(IdSeq))}
Arrived(c) == \A d \in Conns : d < c => pc[d] # "idle"

RelayInit ==
    /\ secret_key \in Secrets
    /\ peers = [i \in PeerIds |-> None]
    /\ pc = [c \in Conns |-> "idle"]
    /\ pid = [c \in Conns |-> Absent]
    /\ ws = [c \in Conns |-> "none"]
    /\ cp = [c \in Conns |-> {}]
    /\ expired = [c \in Conns |-> FALSE]
    /\ tgt = [c \in Conns |-> None]
    /\ tdVisited = [c \in Conns |-> {}]
    /\ tdSize = [c \in Conns |-> 0]
    /\ sweepTodo = {}
    /\ sent = <<>>

\* line 96: `peer_id in self.peers`
\* a duplicate check that never finds the id
IdInUse_never(peer_id) == FALSE

IdInUse(peer_id) == peers[peer_id] # None

Closing == {"closing_format", "closing_auth", "closing_dup", "closing_error"}

\* _handle_connection from the arrival of the first frame f (a JSON object)
\* to its first suspension: the close() of a refused connection (the pc value
\* names which close it is) or the recv() of _handle_messages
HandleConnection(c, f) ==
    /\ pc[c] = "idle"
    /\ Arrived(c)
    /\ f.peer_id \in ClaimableIds(c) \cup {Absent}
    /\ sent' = <<>>
    /\ UNCHANGED <<secret_key, cp, expired, tgt, tdVisited, tdSize, sweepTodo>>
    /\ IF ~WellFormed(f)
       THEN /\ pc' = [pc EXCEPT ![c] = "closing_format"]
            /\ ws' = [ws EXCEPT ![c] = "closed"]
            /\ UNCHANGED <<peers, pid>>
       ELSE IF ~_verify_token(f.peer_id, f.timestamp, f.token)
       THEN /\ pc' = [pc EXCEPT ![c] = "closing_auth"]
            /\ ws' = [ws EXCEPT ![c] = "closed"]
            /\ UNCHANGED <<peers, pid>>
       ELSE IF IdInUse(f.peer_id)
       THEN /\ pc' = [pc EXCEPT ![c] = "closing_dup"]
            /\ ws' = [ws EXCEPT ![c] = "closed"]
            /\ UNCHANGED <<peers, pid>>
       ELSE /\ peers' = [peers EXCEPT ![f.peer_id] = c]
            /\ pid' = [pid EXCEPT ![c] = f.peer_id]
            /\ pc' = [pc EXCEPT ![c] = "recv"]
            /\ ws' = [ws EXCEPT ![c] = "open"]

\* the first frame is not JSON: json.loads raises, close(1011, ...)
HandleConnectionBadJson(c) ==
    /\ pc[c] = "idle"
    /\ Arrived(c)
    /\ pc' = [pc EXCEPT ![c] = "closing_error"]
    /\ ws' = [ws EXCEPT ![c] = "closed"]
    /\ sent' = <<>>
    /\ UNCHANGED <<secret_key, peers, pid, cp, expired, tgt, tdVisited, tdSize,
                   sweepTodo>>

\* the first recv() raises ConnectionClosed: the task ends
HandleConnectionAborted(c) ==
    /\ pc[c] = "idle"
    /\ Arrived(c)
    /\ pc' = [pc EXCEPT ![c] = "done"]
    /\ ws' = [ws EXCEPT ![c] = "closed"]
    /\ sent' = <<>>
    /\ UNCHANGED <<secret_key, peers, pid, cp, expired, tgt, tdVisited, tdSize,
                   sweepTodo>>

\* `await websocket.close(...)` of a refused connection returns; the task ends
CloseReturns(c) ==
    /\ pc[c] \in Closing
    /\ pc' = [pc EXCEPT ![c] = "done"]
    /\ sent' = <<>>
    /\ UNCHANGED <<secret_key, peers, pid, ws, cp, expired, tgt, tdVisited,
                   tdSize, sweepTodo>>

(* --------------------------- message handlers -------------------------- *)
AddPeers(c, t, target) ==
    [x \in Conns |->
        IF x = c /\ x = target THEN cp[x] \cup {t, pid[c]}
        ELSE IF x = c THEN cp[x] \cup {t}
        ELSE IF x = target THEN cp[x] \cup {pid[c]}
        ELSE cp[x]]

_handle_heartbeat(c) ==
    /\ sent' = <<Sent(c, HeartbeatReply)>>
    /\ UNCHANGED <<pc, cp, tgt>>

\* a connect handler that records the requester's side before looking the
\* target up
_handle_connect_request_eager(c, f) ==
    LET t == f.target_id
    IN  /\ cp' = [cp EXCEPT ![c] = @ \cup (IF t = Absent THEN {} ELSE {t})]
        /\ sent' = <<Sent(c, ConnectResponse(t, FALSE))>>
        /\ UNCHANGED <<pc, tgt>>

\* up to the await of the connect_response send
_handle_connect_request(c, f) ==
    LET t == f.target_id
        target == IF t = Absent THEN None ELSE peers[t]
    IN  IF t = Absent
        THEN /\ sent' = <<>>
             /\ UNCHANGED <<pc, cp, tgt>>
        ELSE IF target = None
        THEN /\ sent' = <<Sent(c, ConnectResponse(t, FALSE))>>
             /\ UNCHANGED <<pc, cp, tgt>>
        ELSE /\ cp' = AddPeers(c, t, target)
             /\ sent' = <<Sent(c, ConnectResponse(t, TRUE))>>
             /\ IF SendOk(c)
                THEN /\ pc' = [pc EXCEPT ![c] = "notify"]
                     /\ tgt' = [tgt EXCEPT ![c] = target]
                ELSE \* send raised: the handler's except clause ends it
                     UNCHANGED <<pc, tgt>>

\* _handle_connect_request resumed: the peer_connected send to `target`
NotifyTarget(c) ==
    /\ pc[c] = "notify"
    /\ sent' = <<Sent(tgt[c], PeerConnected(pid[c]))>>
    /\ pc' = [pc EXCEPT ![c] = "recv"]
    /\ tgt' = [tgt EXCEPT ![c] = None]
    /\ UNCHANGED <<secret_key, peers, pid, ws, cp, expired, tdVisited, tdSize,
                   sweepTodo>>

\* a disconnect that updates only the requester's side
_handle_disconnect_request_one_sided(c, f) ==
    LET t == f.target_id
        target == IF t = Absent THEN None ELSE peers[t]
    IN  /\ UNCHANGED <<pc, tgt>>
        /\ IF t = Absent \/ target = None \/ t \notin cp[c]
           THEN /\ sent' = <<>>
                /\ UNCHANGED cp
           ELSE /\ cp' = [cp EXCEPT ![c] = @ \ {t}]
                /\ sent' = <<Sent(target, PeerDisconnected(pid[c]))>>

_handle_disconnect_request(c, f) ==
    LET t == f.target_id
        target == IF t = Absent THEN None ELSE peers[t]
    IN  /\ UNCHANGED <<pc, tgt>>
        /\ IF t = Absent \/ target = None \/ t \notin cp[c]
           THEN /\ sent' = <<>>
                /\ UNCHANGED cp
           ELSE LET cp1 == [cp EXCEPT ![c] = @ \ {t}]
                IN  IF pid[c] \notin cp1[target]
                    THEN \* set.remove raises KeyError, caught by the handler
                         /\ cp' = cp1
                         /\ sent' = <<>>
                    ELSE /\ cp' = [cp1 EXCEPT ![target] = @ \ {pid[c]}]
                         /\ sent' = <<Sent(target, PeerDisconnected(pid[c]))>>

\* the "peer_id" key of a frame the relay writes for the session c: lines
\* 192, 215, 245 and 262 take connection.peer_id, never a key of the frame
SenderId_claimed(c, f) == IF f.peer_id = Absent THEN pid[c] ELSE f.peer_id
SenderId(c, f) == pid[c]

_handle_data(c, f) ==
    LET t == f.target_id
        target == IF t = Absent THEN None ELSE peers[t]
    IN  /\ UNCHANGED <<pc, cp, tgt>>
        /\ IF t = Absent \/ f.data = Absent \/ t \notin cp[c] \/ target = None
           THEN sent' = <<>>
           ELSE sent' = <<Sent(target, DataFrame(SenderId(c, f), f.data))>>

\* one iteration of _handle_messages: recv() returned frame f.  recv() hands
\* out frames that were buffered before the websocket closed.
HandleMessage(c, f) ==
    /\ pc[c] = "recv"
    /\ UNCHANGED <<secret_key, peers, pid, ws, tdVisited, tdSize, sweepTodo>>
    /\ IF f = BadJson
       THEN /\ sent' = <<>>
            /\ UNCHANGED <<pc, cp, tgt, expired>>
       ELSE /\ expired' = [expired EXCEPT ![c] = FALSE]
            /\ CASE f.type = "heartbeat" -> _handle_heartbeat(c)
                 [] f.type = "connect" -> _handle_connect_request(c, f)
                 [] f.type = "disconnect" -> _handle_disconnect_request(c, f)
                 [] f.type = "data" -> _handle_data(c, f)
                 [] OTHER -> /\ sent' = <<>>
                             /\ UNCHANGED <<pc, cp, tgt>>

(* ------------------------------ teardown ------------------------------ *)
\* _handle_disconnect ended in its except clause: the session stays in peers
TeardownAborted(c, cp1, out) ==
    /\ pc' = [pc EXCEPT ![c] = "done"]
    /\ cp' = cp1
    /\ sent' = out
    /\ tdVisited' = [tdVisited EXCEPT ![c] = {}]
    /\ tdSize' = [tdSize EXCEPT ![c] = 0]
    /\ UNCHANGED <<peers, pid, expired>>

\* _handle_disconnect from one step of its set iterator to the next await.
\* Ids with no session are passed without suspending; the set's iteration
\* order is not determined by the program.
_handle_disconnect(c, visited, size) ==
    IF Cardinality(cp[c]) # size
    THEN \* RuntimeError: Set changed size during iteration
         TeardownAborted(c, cp, <<>>)
    ELSE LET todo == cp[c] \ visited
             absent == {i \in todo : peers[i] = None}
             present == todo \ absent
         IN  IF present = {}
             THEN \* loop exhausted: del self.peers[connection.peer_id]
                  \* (the PeerConnection object is garbage from here on)
                  /\ peers' = [peers EXCEPT ![pid[c]] = None]
                  /\ pc' = [pc EXCEPT ![c] = "done"]
                  /\ pid' = [pid EXCEPT ![c] = Absent]
                  /\ cp' = [cp EXCEPT ![c] = {}]
                  /\ expired' = [expired EXCEPT ![c] = FALSE]
                  /\ tdVisited' = [tdVisited EXCEPT ![c] = {}]
                  /\ tdSize' = [tdSize EXCEPT ![c] = 0]
                  /\ sent' = <<>>
             ELSE \E skipped \in SUBSET absent, r \in present :
                    LET peer == peers[r]
                        note == Sent(peer, PeerDisconnected(pid[c]))
                    IN  IF pid[c] \notin cp[peer]
                        THEN \* peer.connected_peers.remove raises KeyError
                             TeardownAborted(c, cp, <<>>)
                        ELSE LET cp1 == [cp EXCEPT ![peer] = @ \ {pid[c]}]
                             IN  IF SendOk(peer)
                                 THEN /\ cp' = cp1
                                      /\ sent' = <<note>>
                                      /\ pc' = [pc EXCEPT ![c] = "td"]
                                      /\ tdVisited' = [tdVisited EXCEPT ![c] =
                                                visited \cup skipped \cup {r}]
                                      /\ tdSize' = [tdSize EXCEPT ![c] = size]
                                      /\ UNCHANGED <<peers, pid, expired>>
                                 ELSE TeardownAborted(c, cp1, <<note>>)

\* recv() raises ConnectionClosed: _handle_messages breaks, the finally
\* clause of _handle_connection starts _handle_disconnect
ConnectionClosed(c) ==
    /\ pc[c] = "recv"
    /\ ws[c] = "closed"
    /\ _handle_disconnect(c, {}, Cardinality(cp[c]))
    /\ UNCHANGED <<secret_key, ws, tgt, sweepTodo>>

\* _handle_disconnect resumed after the await of a peer_disconnected send
TeardownStep(c) ==
    /\ pc[c] = "td"
    /\ _handle_disconnect(c, tdVisited[c], tdSize[c])
    /\ UNCHANGED <<secret_key, ws, tgt, sweepTodo>>

(* ---------------------------- environment ----------------------------- *)
\* the client end of a websocket goes away
ClientClose(c) ==
    /\ ws[c] = "open"
    /\ ws' = [ws EXCEPT ![c] = "closed"]
    /\ sent' = <<>>
    /\ UNCHANGED <<secret_key, peers, pc, pid, cp, expired, tgt, tdVisited,
                   tdSize, sweepTodo>>

\* more than 30 s pass: every session's last_heartbeat is now too old
Tick ==
    /\ \E c \in Conns : Registered(c) /\ ~expired[c]
    /\ expired' = [c \in Conns |-> Registered(c)]
    /\ sent' = <<>>
    /\ UNCHANGED <<secret_key, peers, pc, pid, ws, cp, tgt, tdVisited, tdSize,
                   sweepTodo>>

(* --------------------------- heartbeat sweep -------------------------- *)
\* _check_heartbeats: the scan that builds timeout_peers
SweepScan ==
    /\ sweepTodo = {}
    /\ \E c \in Conns : Registered(c) /\ expired[c]
    /\ sweepTodo' = {c \in Conns : Registered(c) /\ expired[c]}
    /\ sent' = <<>>
    /\ UNCHANGED <<secret_key, peers, pc, pid, ws, cp, expired, tgt, tdVisited,
                   tdSize>>

\* _check_heartbeats: await connection.websocket.close(1001, ...)
SweepClose(c) ==
    /\ c \in sweepTodo
    /\ sweepTodo' = sweepTodo \ {c}
    /\ ws' = [ws EXCEPT ![c] = "closed"]
    /\ sent' = <<>>
    /\ UNCHANGED <<secret_key, peers, pc, pid, cp, expired, tgt, tdVisited,
                   tdSize>>

\* Runs of three sessions.  Time does not advance far enough for a heartbeat
\* timeout (a websocket closed by the sweep is a closed websocket like one
\* closed by its client), and no client names itself as target_id.
RelayNext ==
    \/ \E c \in Conns, f \in AuthFrames : HandleConnection(c, f) /\ UNCHANGED notRelayVars
    \/ \E c \in Conns : HandleConnectionBadJson(c) /\ UNCHANGED notRelayVars
    \/ \E c \in Conns : HandleConnectionAborted(c) /\ UNCHANGED notRelayVars
    \/ \E c \in Conns : CloseReturns(c) /\ UNCHANGED notRelayVars
    \/ \E c \in Conns, f \in ClientFrames :
            f.target_id # pid[c] /\ HandleMessage(c, f) /\ UNCHANGED notRelayVars
    \/ \E c \in Conns : NotifyTarget(c) /\ UNCHANGED notRelayVars
    \/ \E c \in Conns : ConnectionClosed(c) /\ UNCHANGED notRelayVars
    \/ \E c \in Conns : TeardownStep(c) /\ UNCHANGED notRelayVars
    \/ \E c \in Conns : ClientClose(c) /\ UNCHANGED notRelayVars

\* Runs of NSweepConn connections with every event of the relay: any
\* configured or empty secret key, clients naming themselves, the clock and
\* the heartbeat sweep.
SweepConns == 1..NSweepConn

\* the frames of clients that also place a "peer_id" key of their choice
SpoofFrames ==
    {[type |-> ty, target_id |-> t, data |-> d, peer_id |-> q] :
        ty \in {"connect", "disconnect", "data"}, t \in PeerIds \cup {Absent},
        d \in {"p1", Absent}, q \in PeerIds \cup {Absent}}
\* the frames that differ from f in the keys the relay does not read
Variants(f) == {[f EXCEPT !.peer_id = q] : q \in PeerIds \cup {Absent}}

\* Runs of the relay with such clients
SpoofNext ==
    \/ \E c \in SweepConns, f \in AuthFrames : HandleConnection(c, f) /\ UNCHANGED notRelayVars
    \/ \E c \in SweepConns : CloseReturns(c) /\ UNCHANGED notRelayVars
    \/ \E c \in SweepConns, f \in SpoofFrames :
            f.target_id # pid[c] /\ HandleMessage(c, f) /\ UNCHANGED notRelayVars
    \/ \E c \in SweepConns : NotifyTarget(c) /\ UNCHANGED notRelayVars
    \/ \E c \in SweepConns : ConnectionClosed(c) /\ UNCHANGED notRelayVars
    \/ \E c \in SweepConns : TeardownStep(c) /\ UNCHANGED notRelayVars
    \/ \E c \in SweepConns : ClientClose(c) /\ UNCHANGED notRelayVars
SweepNext ==
    \/ \E c \in SweepConns, f \in AuthFrames : HandleConnection(c, f) /\ UNCHANGED notRelayVars
    \/ \E c \in SweepConns : HandleConnectionBadJson(c) /\ UNCHANGED notRelayVars
    \/ \E c \in SweepConns : HandleConnectionAborted(c) /\ UNCHANGED notRelayVars
    \/ \E c \in SweepConns : CloseReturns(c) /\ UNCHANGED notRelayVars
    \/ \E c \in SweepConns, f \in ClientFrames : HandleMessage(c, f) /\ UNCHANGED notRelayVars
    \/ \E c \in SweepConns : NotifyTarget(c) /\ UNCHANGED notRelayVars
    \/ \E c \in SweepConns : ConnectionClosed(c) /\ UNCHANGED notRelayVars
    \/ \E c \in SweepConns : TeardownStep(c) /\ UNCHANGED notRelayVars
    \/ \E c \in SweepConns : ClientClose(c) /\ UNCHANGED notRelayVars
    \/ Tick /\ UNCHANGED notRelayVars
    \/ SweepScan /\ UNCHANGED notRelayVars
    \/ \E c \in SweepConns : SweepClose(c) /\ UNCHANGED notRelayVars

(* ------------------------ the Connection Manager ------------------------ *)

NoCall == Absent
NoLoop == [stage |-> "none", attempts |-> 0]

\* the state __init__ leaves
CMInit ==
    /\ listener = "none"
    /\ cm_peers = [i \in CMIds |-> NoSock]
    /\ sock = [s \in Socks |-> "unused"]
    /\ owner = [s \in Socks |-> Absent]
    /\ hpc = [s \in Socks |-> "none"]
    /\ call = [k \in Callers |-> NoCall]
    /\ reconnect_tasks = {}
    /\ loop = [i \in CMIds |-> NoLoop]
    /\ stopPc = "idle"
    /\ stopTodo = {}
    /\ kind = [s \in Socks |-> "none"]

\* the socket the next open_connection or accept creates
IsNextSock(s) ==
    /\ sock[s] = "unused"
    /\ \A t \in Socks : t < s => sock[t] # "unused"

\* start(): the listener is created
start ==
    /\ listener = "none"
    /\ stopPc = "idle"
    /\ listener' = "open"
    /\ UNCHANGED <<cm_peers, sock, owner, hpc, call, reconnect_tasks, loop,
                   stopPc, stopTodo, kind>>

\* the off-by-one loop test
LoopContinues_once_more(attempts) == attempts <= max_reconnect_attempts

\* `while attempts < self.max_reconnect_attempts`
LoopContinues(attempts) == attempts < max_reconnect_attempts

\* a task created whether or not one is recorded for peer_id
_start_reconnect_task_always(peer_id, lp) ==
    /\ reconnect_tasks' = reconnect_tasks \cup {peer_id}
    /\ loop' = [lp EXCEPT ![peer_id] =
                    [stage |-> IF LoopContinues(0) THEN "sleep" ELSE "ended",
                     attempts |-> 0, pos |-> 0]]

\* _start_reconnect_task(peer_id, addr) applied to the loops lp
_start_reconnect_task(peer_id, lp) ==
    /\ reconnect_tasks' = reconnect_tasks \cup {peer_id}
    /\ loop' = IF peer_id \in reconnect_tasks
               THEN lp
               ELSE [lp EXCEPT ![peer_id] =
                        [stage |-> IF LoopContinues(0) THEN "sleep" ELSE "ended",
                         attempts |-> 0, pos |-> 0]]

\* the addresses connect_to_peer reaches a peer by: peer_addr (lines 144-153)
\* and the mapped_address of a STUN binding (lines 156-168)
ConnectKinds == {"direct", "stun"}

\* connect_to_peer, lines 147-153 and 162-168: a connection was opened on
\* socket s and its writer is stored under peer_id, whatever was stored there;
\* via tells which address was reached
StoreConnection(peer_id, s, via) ==
    /\ IsNextSock(s)
    /\ sock' = [sock EXCEPT ![s] = "open"]
    /\ kind' = [kind EXCEPT ![s] = via]
    /\ owner' = [owner EXCEPT ![s] = peer_id]
    /\ cm_peers' = [cm_peers EXCEPT ![peer_id] = s]

\* the application calls connect_to_peer(peer_id, addr): the call runs to the
\* await of _try_direct_connection(peer_addr). The addresses the call tries
\* one after the other (peer_addr, then each mapped_address of stun_results)
\* are one attempt with one outcome: between them the call reads and writes
\* nothing of the manager.
connect_to_peer(k, peer_id) ==
    /\ call[k] = NoCall
    /\ \A j \in Callers : j < k => call[j] # NoCall
    /\ stopPc = "idle"
    /\ call' = [call EXCEPT ![k] = peer_id]
    /\ UNCHANGED <<listener, cm_peers, sock, owner, hpc,
                   reconnect_tasks, loop, stopPc, stopTodo, kind>>

\* _try_direct_connection returned (reader, writer) to the call: the entry is
\* written and the call returns True
ConnectOk(k, via) ==
    /\ call[k] # NoCall
    /\ \E s \in Socks : StoreConnection(call[k], s, via)
    /\ call' = [call EXCEPT ![k] = NoCall]
    /\ UNCHANGED <<listener, hpc, reconnect_tasks, loop,
                   stopPc, stopTodo>>

\* _try_direct_connection returned None for every address: the reconnect
\* task is started and the call returns False
ConnectFail(k) ==
    /\ call[k] # NoCall
    /\ call' = [call EXCEPT ![k] = NoCall]
    /\ _start_reconnect_task(call[k], loop)
    /\ UNCHANGED <<listener, cm_peers, sock, owner, hpc,
                   stopPc, stopTodo, kind>>

\* _reconnect_loop: asyncio.sleep(reconnect_delay) returns and the loop calls
\* connect_to_peer, which awaits _try_direct_connection
ReconnectWake(peer_id) ==
    /\ loop[peer_id].stage = "sleep"
    /\ loop' = [loop EXCEPT ![peer_id].stage = "connect"]
    /\ UNCHANGED <<listener, cm_peers, sock, owner, hpc, call,
                   reconnect_tasks, stopPc, stopTodo, kind>>

\* _reconnect_loop: connect_to_peer returned True; the loop breaks and
\* deletes its task
ReconnectOk(peer_id, via) ==
    /\ loop[peer_id].stage = "connect"
    /\ \E s \in Socks : StoreConnection(peer_id, s, via)
    /\ loop' = [loop EXCEPT ![peer_id].stage = "ended"]
    /\ reconnect_tasks' = reconnect_tasks \ {peer_id}
    /\ UNCHANGED <<listener, hpc, call, stopPc, stopTodo>>

\* _reconnect_loop: connect_to_peer returned False (its
\* _start_reconnect_task finds the task of this loop); attempts is
\* incremented and the loop sleeps again, or ends and deletes its task
ReconnectFail(peer_id) ==
    /\ loop[peer_id].stage = "connect"
    /\ LET attempts == loop[peer_id].attempts + 1
       IN  IF LoopContinues(attempts)
           THEN /\ loop' = [loop EXCEPT ![peer_id] =
                       [stage |-> "sleep", attempts |-> attempts]]
                /\ UNCHANGED reconnect_tasks
           ELSE /\ loop' = [loop EXCEPT ![peer_id] =
                       [stage |-> "ended", attempts |-> attempts]]
                /\ reconnect_tasks' = reconnect_tasks \ {peer_id}
    /\ UNCHANGED <<listener, cm_peers, sock, owner, hpc, call,
                   stopPc, stopTodo, kind>>

\* the listener accepts a connection and starts _handle_connection on it,
\* which runs to its first readuntil
Accept(s) ==
    /\ listener = "open"
    /\ IsNextSock(s)
    /\ sock' = [sock EXCEPT ![s] = "open"]
    /\ hpc' = [hpc EXCEPT ![s] = "read"]
    /\ kind' = [kind EXCEPT ![s] = "inbound"]
    /\ UNCHANGED <<listener, cm_peers, owner, call,
                   reconnect_tasks, loop, stopPc, stopTodo>>

\* _handle_connection, lines 232-240: the first message with a peer_id
\* authenticates the connection and stores its writer under that id
HandleAuthMessage(s, peer_id) ==
    /\ hpc[s] = "read"
    /\ sock[s] = "open"
    /\ owner[s] = Absent
    /\ owner' = [owner EXCEPT ![s] = peer_id]
    /\ cm_peers' = [cm_peers EXCEPT ![peer_id] = s]
    /\ UNCHANGED <<listener, sock, hpc, call, reconnect_tasks,
                   loop, stopPc, stopTodo, kind>>

\* _handle_connection, lines 246-272: readuntil raises (the remote end or this
\* end closed the connection) or the message handler raises; the loop breaks
\* and the finally block deletes the entry of peer_id, starts the reconnect
\* task and closes the writer; the wait_closed that ends the task changes
\* nothing of the manager
HandleConnectionLost(s) ==
    /\ hpc[s] = "read"
    /\ hpc' = [hpc EXCEPT ![s] = "done"]
    /\ sock' = [sock EXCEPT ![s] = "closed"]
    /\ IF owner[s] # Absent /\ cm_peers[owner[s]] # NoSock
       THEN /\ cm_peers' = [cm_peers EXCEPT ![owner[s]] = NoSock]
            /\ _start_reconnect_task(owner[s], loop)
       ELSE UNCHANGED <<cm_peers, reconnect_tasks, loop>>
    /\ owner' = [owner EXCEPT ![s] = Absent]
    /\ UNCHANGED <<listener, call, stopPc, stopTodo, kind>>

\* stop(), lines 373-387, with the connections todo of the snapshot left and
\* the sockets sk: the next connection is closed and its wait_closed awaited,
\* or the server is closed and its wait_closed awaited
StopContinue(todo, sk) ==
    IF todo # {}
    THEN \E s \in todo :
            /\ sock' = [sk EXCEPT ![s] = "closed"]
            /\ stopTodo' = todo \ {s}
            /\ stopPc' = "wait_closed"
            /\ UNCHANGED listener
    ELSE /\ sock' = sk
         /\ stopTodo' = {}
         /\ IF listener = "none"
            THEN stopPc' = "returned" /\ UNCHANGED listener
            ELSE stopPc' = "server_wait_closed" /\ listener' = "closed"

\* stop(), lines 368-377: the reconnect tasks are cancelled and forgotten, the
\* entries are snapshot and the first is closed
stop ==
    /\ stopPc = "idle"
    /\ \A k \in Callers : call[k] = NoCall
    /\ loop' = [i \in CMIds |->
                    IF loop[i].stage \in {"sleep", "connect"}
                    THEN NoLoop ELSE loop[i]]
    /\ reconnect_tasks' = {}
    /\ StopContinue({cm_peers[i] : i \in CMIds} \ {NoSock}, sock)
    /\ UNCHANGED <<cm_peers, owner, hpc, call, kind>>

\* stop(): wait_for(wait_closed, 1.0) returns or times out, and the loop goes
\* on; or it raises the error the connection was lost with, and stop() logs
\* it and returns
StopWaitClosed(raises) ==
    /\ stopPc = "wait_closed"
    /\ IF raises
       THEN /\ stopPc' = "returned"
            /\ stopTodo' = {}
            /\ UNCHANGED <<listener, sock>>
       ELSE StopContinue(stopTodo, sock)
    /\ UNCHANGED <<cm_peers, owner, hpc, call, reconnect_tasks,
                   loop, kind>>

\* stop(): the server's wait_closed returns or times out; stop() returns
StopServerClosed ==
    /\ stopPc = "server_wait_closed"
    /\ stopPc' = "returned"
    /\ UNCHANGED <<listener, cm_peers, sock, owner, hpc, call,
                   reconnect_tasks, loop, stopTodo, kind>>

CMNext ==
    \/ start /\ UNCHANGED notCMVars
    \/ \E k \in Callers, i \in CMIds : connect_to_peer(k, i) /\ UNCHANGED notCMVars
    \/ \E k \in Callers : ConnectOk(k, "direct") /\ UNCHANGED notCMVars
    \/ \E k \in Callers : ConnectFail(k) /\ UNCHANGED notCMVars
    \/ \E i \in CMIds : ReconnectWake(i) /\ UNCHANGED notCMVars
    \/ \E i \in CMIds : ReconnectOk(i, "direct") /\ UNCHANGED notCMVars
    \/ \E i \in CMIds : ReconnectFail(i) /\ UNCHANGED notCMVars
    \/ \E s \in Socks : Accept(s) /\ UNCHANGED notCMVars
    \/ \E s \in Socks, i \in CMIds : HandleAuthMessage(s, i) /\ UNCHANGED notCMVars
    \/ \E s \in Socks : HandleConnectionLost(s) /\ UNCHANGED notCMVars
    \/ stop /\ UNCHANGED notCMVars
    \/ \E raises \in BOOLEAN : StopWaitClosed(raises) /\ UNCHANGED notCMVars
    \/ StopServerClosed /\ UNCHANGED notCMVars

(* ------------- the Connection Manager: sending and receiving ------------- *)

\* the dicts that travel: an authentication message, an application message
AuthMsg(p) == [type |-> "auth", peer_id |-> p, content |-> Absent]
AppMsg(c) == [type |-> "message", peer_id |-> Absent, content |-> c]
\* a dict json.dumps raises TypeError for (a value that is no JSON value)
Unserialisable == [type |-> "message", peer_id |-> Absent, content |-> "<object>"]
NoMsg == [type |-> Absent, peer_id |-> Absent, content |-> Absent]

NoSend == [stage |-> "idle", peer_id |-> Absent, message |-> NoMsg,
           sock |-> NoSock, result |-> "none"]

MsgInit ==
    /\ stream = [s \in Socks |-> <<>>]
    /\ rauth = [s \in Socks |-> Absent]
    /\ handled = <<>>
    /\ snd = [k \in Senders |-> NoSend]
    /\ outcome = [c \in {AppContents[n] : n \in 1..Len(AppContents)} |-> "unsent"]
    /\ firstFrame = [s \in Socks |-> "none"]
    /\ remote = [s \in Socks |-> Absent]
    /\ nsend = 0
    /\ nrecv = 0

\* _handle_connection, line 232: `if not peer_id and 'peer_id' in message`
Admits(peer_id, message) == peer_id = Absent /\ message.peer_id # Absent

\* _handle_connection, line 243: `if peer_id and self.message_handler`
Dispatches(peer_id, message) == ~Admits(peer_id, message) /\ peer_id # Absent

\* `await self.message_handler(peer_id, message)` of the handler of socket s
MessageHandler(s, peer_id, message) ==
    handled' = Append(handled, [sock |-> s, peer_id |-> peer_id, message |-> message])

\* _handle_connection of an accepted connection, lines 228-244: readuntil
\* returns the frame f of the remote peer and the loop handles it
HandleFrame(s, f) ==
    /\ hpc[s] = "read"
    /\ sock[s] = "open"
    /\ nrecv < MaxRecv
    /\ nrecv' = nrecv + 1
    /\ firstFrame' = [firstFrame EXCEPT ![s] =
            IF @ # "none" THEN @
            ELSE IF f.type = "auth" /\ f.peer_id # Absent THEN "auth" ELSE "other"]
    /\ IF Admits(owner[s], f)
       THEN HandleAuthMessage(s, f.peer_id) /\ UNCHANGED handled
       ELSE /\ IF Dispatches(owner[s], f)
               THEN MessageHandler(s, owner[s], f)
               ELSE UNCHANGED handled
            /\ UNCHANGED cmVars
    /\ UNCHANGED <<stream, rauth, snd, outcome, remote, nsend>>

\* the remote manager reached by connect_to_peer accepted the connection and
\* runs _handle_connection for it
PeerIsManager(s) == kind[s] \in ConnectKinds

\* _handle_connection of the remote manager, lines 228-244, for the connection
\* of the outbound socket s: it reads the next frame this manager wrote
PeerHandleFrame(s) ==
    /\ PeerIsManager(s)
    /\ stream[s] # <<>>
    /\ stream' = [stream EXCEPT ![s] = Tail(@)]
    /\ LET f == Head(stream[s])
       IN  IF Admits(rauth[s], f)
           THEN rauth' = [rauth EXCEPT ![s] = f.peer_id] /\ UNCHANGED handled
           ELSE /\ IF Dispatches(rauth[s], f)
                   THEN MessageHandler(s, rauth[s], f)
                   ELSE UNCHANGED handled
                /\ UNCHANGED rauth
    /\ UNCHANGED <<cmVars, snd, outcome, firstFrame, remote, nsend, nrecv>>

\* writer.is_closing()
IsClosing(s) == sock[s] # "open"

\* PeerInfo.local_addr of the entry whose writer is s is set: connect_to_peer
\* sets only public_addr for a connection to a STUN mapped address
HasLocalAddr(s) == kind[s] # "stun"

\* the exceptions send_message meets: TypeError of json.dumps and the
\* ConnectionResetError of drain
Errors == {"TypeError", "ConnectionResetError"}

\* `except ConnectionError`
Caught_only_oserror(exc) == exc = "ConnectionResetError"

\* `except Exception`, line 300
Caught(exc) == exc \in Errors

\* the outcome r of the send_message call for the message m
Outcome(m, r) ==
    IF m.type = "message" /\ m.content \in DOMAIN outcome
    THEN outcome' = [outcome EXCEPT ![m.content] = r]
    ELSE UNCHANGED outcome

\* send_message returns r
SendReturn(k, r) ==
    /\ snd' = [snd EXCEPT ![k] = [NoSend EXCEPT !.result = r]]
    /\ Outcome(snd[k].message, r)

\* send_message, lines 300-307: exc was raised in the try block with the
\* table pe; the handler pops the entry of peer_id, starts the reconnect task
\* if the entry has a local_addr, and returns False
SendFailed(k, peer_id, m, exc, pe) ==
    IF Caught(exc)
    THEN /\ cm_peers' = [pe EXCEPT ![peer_id] = NoSock]
         /\ IF pe[peer_id] # NoSock /\ HasLocalAddr(pe[peer_id])
            THEN _start_reconnect_task(peer_id, loop)
            ELSE UNCHANGED <<reconnect_tasks, loop>>
         /\ snd' = [snd EXCEPT ![k] = [NoSend EXCEPT !.result = "False"]]
         /\ Outcome(m, "False")
    ELSE /\ cm_peers' = pe
         /\ UNCHANGED <<reconnect_tasks, loop>>
         /\ snd' = [snd EXCEPT ![k] = [NoSend EXCEPT !.result = "raised"]]
         /\ Outcome(m, "raised")

\* send_message, lines 290-297, for the entry whose writer is s, closing or
\* not, in the table pe: the frame is written and drain awaited, or json.dumps
\* raises
WriteFrame(k, peer_id, m, s, closing, pe) ==
    IF closing
    THEN /\ cm_peers' = pe
         /\ snd' = [snd EXCEPT ![k] = [NoSend EXCEPT !.result = "False"]]
         /\ Outcome(m, "False")
         /\ UNCHANGED <<stream, reconnect_tasks, loop>>
    ELSE IF m = Unserialisable
    THEN /\ SendFailed(k, peer_id, m, "TypeError", pe)
         /\ UNCHANGED stream
    ELSE /\ cm_peers' = pe
         /\ stream' = [stream EXCEPT ![s] = Append(@, m)]
         /\ snd' = [snd EXCEPT ![k] = [stage |-> "drain", peer_id |-> peer_id,
                                       message |-> m, sock |-> s, result |-> "none"]]
         /\ Outcome(m, "written")
         /\ UNCHANGED <<reconnect_tasks, loop>>

\* the messages the application sends: its authentication message, the
\* application messages in their order, each once, and a dict that cannot be
\* serialised
Outbox ==
    {AuthMsg(user_id), Unserialisable}
        \cup {AppMsg(AppContents[n]) : n \in 1..Len(AppContents)}
MayIssue(m) ==
    \/ m \in {AuthMsg(user_id), Unserialisable}
    \/ \E n \in 1..Len(AppContents) :
        /\ m = AppMsg(AppContents[n])
        /\ outcome[AppContents[n]] = "unsent"
        /\ \A j \in 1..(n-1) : outcome[AppContents[j]] # "unsent"

\* the application calls send_message(peer_id, m): lines 278-297, up to the
\* await of _establish_connection or of drain, or to the return
send_message(k, peer_id, m) ==
    /\ snd[k].stage = "idle"
    /\ \A j \in Senders : j < k => snd[j].stage # "idle"
    /\ nsend < MaxSend
    /\ MayIssue(m)
    /\ nsend' = nsend + 1
    /\ LET s == cm_peers[peer_id]
       IN  IF s = NoSock \/ IsClosing(s)
           THEN /\ snd' = [snd EXCEPT ![k] =
                        [stage |-> "establish", peer_id |-> peer_id,
                         message |-> m, sock |-> NoSock, result |-> "none"]]
                /\ UNCHANGED <<cm_peers, stream, outcome, reconnect_tasks, loop>>
           ELSE WriteFrame(k, peer_id, m, s, IsClosing(s), cm_peers)
    /\ UNCHANGED <<listener, sock, owner, hpc, call, stopPc, stopTodo, kind,
                   rauth, handled, firstFrame, remote, nrecv>>

\* _establish_connection returned False (lines 357-362: no port answered with
\* an auth_reply, or an error), and send_message returns False
EstablishFail(k) ==
    /\ snd[k].stage = "establish"
    /\ SendReturn(k, "False")
    /\ UNCHANGED <<cmVars, stream, rauth, handled, firstFrame, remote,
                   nsend, nrecv>>

\* _establish_connection stored the connection to a port that answered with an
\* auth_reply (lines 340-348) and returned True; send_message goes on with the
\* new entry, lines 286-297
EstablishOk(k) ==
    /\ snd[k].stage = "establish"
    /\ \E s \in Socks :
        /\ IsNextSock(s)
        /\ sock' = [sock EXCEPT ![s] = "open"]
        /\ kind' = [kind EXCEPT ![s] = "established"]
        /\ owner' = [owner EXCEPT ![s] = snd[k].peer_id]
        /\ WriteFrame(k, snd[k].peer_id, snd[k].message, s, FALSE,
                      [cm_peers EXCEPT ![snd[k].peer_id] = s])
    /\ UNCHANGED <<listener, hpc, call, stopPc, stopTodo,
                   rauth, handled, firstFrame, remote, nsend, nrecv>>

\* drain returns, and send_message returns True
DrainOk(k) ==
    /\ snd[k].stage = "drain"
    /\ SendReturn(k, "True")
    /\ UNCHANGED <<cmVars, stream, rauth, handled, firstFrame, remote,
                   nsend, nrecv>>

\* the connection was lost and drain raises ConnectionResetError
DrainFail(k) ==
    /\ snd[k].stage = "drain"
    /\ sock' = [sock EXCEPT ![snd[k].sock] = "closed"]
    /\ SendFailed(k, snd[k].peer_id, snd[k].message, "ConnectionResetError", cm_peers)
    /\ UNCHANGED <<listener, owner, hpc, call, stopPc, stopTodo, kind,
                   stream, rauth, handled, firstFrame, remote, nsend, nrecv>>

\* the listener accepts the connection of the manager r
AcceptFrom(s, r) ==
    /\ Accept(s)
    /\ remote' = [remote EXCEPT ![s] = r]
    /\ UNCHANGED <<stream, rauth, handled, snd, outcome, firstFrame,
                   nsend, nrecv>>

\* the environment of MsgSpec: one remote peer id, two sockets, two calls of
\* send_message
NMsgSock == 2
NMsgSend == 2
MsgSocks == 1..NMsgSock
MsgIds == {IdSeq[2]}
SockFree == \E s \in MsgSocks : sock[s] = "unused"
MsgInFrames == {AuthMsg(i) : i \in MsgIds} \cup {AppMsg(AppContents[1])}

MsgNext ==
    \/ start /\ UNCHANGED notCMVars
    \/ \E i \in MsgIds : connect_to_peer(1, i) /\ UNCHANGED notCMVars
    \/ \E via \in ConnectKinds : SockFree /\ ConnectOk(1, via) /\ UNCHANGED notCMVars
    \/ ConnectFail(1) /\ UNCHANGED notCMVars
    \/ \E s \in MsgSocks, r \in MsgIds : AcceptFrom(s, r) /\ UNCHANGED notMsgVars
    \/ \E s \in MsgSocks, f \in MsgInFrames : HandleFrame(s, f) /\ UNCHANGED notMsgVars
    \/ \E s \in MsgSocks : HandleConnectionLost(s) /\ UNCHANGED notCMVars
    \/ \E s \in MsgSocks : PeerHandleFrame(s) /\ UNCHANGED notMsgVars
    \/ \E k \in Senders, i \in MsgIds, m \in Outbox :
            nsend < NMsgSend /\ send_message(k, i, m) /\ UNCHANGED notMsgVars
    \/ \E k \in Senders : EstablishFail(k) /\ UNCHANGED notMsgVars
    \/ \E k \in Senders : SockFree /\ EstablishOk(k) /\ UNCHANGED notMsgVars
    \/ \E k \in Senders : DrainOk(k) /\ UNCHANGED notMsgVars
    \/ \E k \in Senders : DrainFail(k) /\ UNCHANGED notMsgVars

\* the environment of OrderSpec: the application connects to one peer, more
\* than once, and sends its messages; no connection fails
OrderNext ==
    \/ \E i \in MsgIds : connect_to_peer(1, i) /\ UNCHANGED notCMVars
    \/ SockFree /\ ConnectOk(1, "direct") /\ UNCHANGED notCMVars
    \/ \E k \in Senders, i \in MsgIds, m \in Outbox \ {Unserialisable} :
            /\ cm_peers[i] # NoSock
            /\ send_message(k, i, m) /\ UNCHANGED notMsgVars
    \/ \E k \in Senders : DrainOk(k) /\ UNCHANGED notMsgVars
    \/ \E s \in MsgSocks : PeerHandleFrame(s) /\ UNCHANGED notMsgVars

(* ----------------------------- NetworkManager ----------------------------- *)

\* NetworkManager.__init__
NMInit ==
    /\ connected_peers = {}
    /\ nm_ws = [p \in NMPeers |-> "none"]
    /\ heartbeat_tasks = [p \in NMPeers |-> "none"]
    /\ silent = [p \in NMPeers |-> 0]

\* handle_connection, lines 831-845: the first frame of a new connection is
\* the auth message of p; the websocket is stored and heartbeat_check started
NMAuth(p) ==
    /\ p \notin connected_peers
    /\ nm_ws[p] # "open"
    /\ connected_peers' = connected_peers \cup {p}
    /\ nm_ws' = [nm_ws EXCEPT ![p] = "open"]
    /\ heartbeat_tasks' = [heartbeat_tasks EXCEPT ![p] = "send"]
    /\ silent' = [silent EXCEPT ![p] = 0]

\* handle_connection, lines 849-850: a frame of p arrives and handle_message
\* handles it
NMMessage(p) ==
    /\ p \in connected_peers
    /\ nm_ws[p] = "open"
    /\ silent[p] # 0
    /\ silent' = [silent EXCEPT ![p] = 0]
    /\ UNCHANGED <<connected_peers, nm_ws, heartbeat_tasks>>

\* heartbeat_check, lines 929-938: the heartbeat is sent and the task sleeps,
\* or send raises ConnectionClosed and the loop breaks
heartbeat_check(p) ==
    /\ heartbeat_tasks[p] = "send"
    /\ heartbeat_tasks' = [heartbeat_tasks EXCEPT ![p] =
            IF nm_ws[p] = "open" THEN "sleep" ELSE "ended"]
    /\ UNCHANGED <<connected_peers, nm_ws, silent>>

\* HeartbeatInterval passes: the sleeping heartbeat tasks wake, and every
\* connected peer has been silent for one interval more
NMTick ==
    /\ \A p \in NMPeers : heartbeat_tasks[p] # "send"
    /\ connected_peers # {}
    /\ heartbeat_tasks' = [p \in NMPeers |->
            IF heartbeat_tasks[p] = "sleep" THEN "send" ELSE heartbeat_tasks[p]]
    /\ silent' = [p \in NMPeers |->
            IF p \in connected_peers /\ silent[p] < MaxSilence
            THEN silent[p] + 1 ELSE silent[p]]
    /\ UNCHANGED <<connected_peers, nm_ws>>

\* the connection of p closes (the peer closes it, or the transport fails)
NMConnectionClosed(p) ==
    /\ nm_ws[p] = "open"
    /\ nm_ws' = [nm_ws EXCEPT ![p] = "closed"]
    /\ UNCHANGED <<connected_peers, heartbeat_tasks, silent>>

\* handle_connection, lines 851-859: the `async for` ends on the closed
\* connection; the entry is deleted and the heartbeat task cancelled
NMHandlerEnds(p) ==
    /\ p \in connected_peers
    /\ nm_ws[p] = "closed"
    /\ connected_peers' = connected_peers \ {p}
    /\ heartbeat_tasks' = [heartbeat_tasks EXCEPT ![p] = "none"]
    /\ silent' = [silent EXCEPT ![p] = 0]
    /\ UNCHANGED nm_ws

NMNext ==
    \/ \E p \in NMPeers : NMAuth(p) /\ UNCHANGED notNMVars
    \/ \E p \in NMPeers : NMMessage(p) /\ UNCHANGED notNMVars
    \/ \E p \in NMPeers : heartbeat_check(p) /\ UNCHANGED notNMVars
    \/ NMTick /\ UNCHANGED notNMVars
    \/ \E p \in NMPeers : NMConnectionClosed(p) /\ UNCHANGED notNMVars
    \/ \E p \in NMPeers : NMHandlerEnds(p) /\ UNCHANGED notNMVars

(* ------------------------- framing of the messages ------------------------ *)

\* the string values of the messages: the characters in any order
RECURSIVE SeqsUpTo(_, _)
SeqsUpTo(S, n) ==
    IF n = 0 THEN {<<>>}
    ELSE LET shorter == SeqsUpTo(S, n - 1)
         IN  shorter \cup {Append(v, c) : v \in shorter, c \in S}
Values == SeqsUpTo(Chars, MaxValueLen)

\* json.dumps of a character of a string: newline, quote and backslash are
\* escaped
EscapeChar(c) ==
    CASE c = "NL" -> <<"B", "n">>
      [] c = "Q"  -> <<"B", "Q">>
      [] c = "B"  -> <<"B", "B">>
      [] OTHER    -> <<c>>

\* a serialiser that writes the characters as they are
RECURSIVE Escape_raw(_)
Escape_raw(v) == IF v = <<>> THEN <<>> ELSE <<Head(v)>> \o Escape_raw(Tail(v))

RECURSIVE Escape(_)
Escape(v) == IF v = <<>> THEN <<>> ELSE EscapeChar(Head(v)) \o Escape(Tail(v))

\* json.dumps(message) for a message whose string value is v: the JSON text
\* of the value between its quotes (the braces and the key around it are the
\* same for every message and hold none of the special characters)
json_dumps(v) == <<"Q">> \o Escape(v) \o <<"Q">>

\* send_message, line 295: json.dumps(message).encode() + b'\n'
EncodeFrame(v) == json_dumps(v) \o <<"NL">>

\* the frame of v is within reader._limit
Fits(v) == Len(json_dumps(v)) <= FrameLimit

\* StreamReader.readuntil(b'\n'): the position of the first separator of the
\* buffer, 0 if it has none
SepIndex(buf) ==
    IF \E i \in 1..Len(buf) : buf[i] = "NL"
    THEN CHOOSE i \in 1..Len(buf) :
            buf[i] = "NL" /\ \A j \in 1..(i-1) : buf[j] # "NL"
    ELSE 0

\* readuntil raises LimitOverrunError: the separator is found beyond the
\* limit, or is not found in a buffer longer than the limit
LimitOverrun(buf) ==
    IF SepIndex(buf) = 0 THEN Len(buf) > FrameLimit
    ELSE SepIndex(buf) - 1 > FrameLimit

\* str.strip(): the whitespace at both ends is removed
RECURSIVE LStrip(_)
LStrip(t) == IF t # <<>> /\ Head(t) = "NL" THEN LStrip(Tail(t)) ELSE t
RECURSIVE RStrip(_)
RStrip(t) ==
    IF t # <<>> /\ t[Len(t)] = "NL" THEN RStrip(SubSeq(t, 1, Len(t) - 1)) ELSE t
Strip(t) == RStrip(LStrip(t))

\* the characters between the quotes of a JSON string are well formed: no
\* raw quote or control character, every backslash starts a known escape
RECURSIVE ValidBody(_)
ValidBody(t) ==
    IF t = <<>> THEN TRUE
    ELSE IF Head(t) = "B"
    THEN Len(t) >= 2 /\ t[2] \in {"n", "Q", "B"} /\ ValidBody(Tail(Tail(t)))
    ELSE Head(t) \notin {"Q", "NL"} /\ ValidBody(Tail(t))

RECURSIVE Unescape(_)
Unescape(t) ==
    IF t = <<>> THEN <<>>
    ELSE IF Head(t) = "B"
    THEN <<(IF t[2] = "n" THEN "NL" ELSE t[2])>> \o Unescape(Tail(Tail(t)))
    ELSE <<Head(t)>> \o Unescape(Tail(t))

JSONDecodeError == <<"<JSONDecodeError>">>

\* json.loads(text) for the text of a message
json_loads(text) ==
    IF /\ Len(text) >= 2
       /\ text[1] = "Q" /\ text[Len(text)] = "Q"
       /\ ValidBody(SubSeq(text, 2, Len(text) - 1))
    THEN Unescape(SubSeq(text, 2, Len(text) - 1))
    ELSE JSONDecodeError

\* _handle_connection, line 229: json.loads(data.decode().strip())
DecodeFrame(data) == json_loads(Strip(data))

\* no stream
FrIdle ==
    /\ fr_out = <<>>
    /\ fr_res = <<>>
    /\ fr_wire = <<>>
    /\ fr_buf = <<>>
    /\ fr_in = <<>>
    /\ fr_pc = "read"

\* a connection on which the application is to send out; its receiver has
\* authenticated it and awaits readuntil
FrInit ==
    /\ fr_out \in UNION {[1..n -> Values] : n \in 1..MaxMsgs}
    /\ fr_res = <<>>
    /\ fr_wire = <<>>
    /\ fr_buf = <<>>
    /\ fr_in = <<>>
    /\ fr_pc = "read"

\* send_message, lines 295-298: the next message is framed and written, and
\* the call returns True; the size of the frame is not looked at
FrSend ==
    /\ Len(fr_res) < Len(fr_out)
    /\ fr_pc = "read"
    /\ fr_wire' = fr_wire \o EncodeFrame(fr_out[Len(fr_res) + 1])
    /\ fr_res' = Append(fr_res, "True")
    /\ UNCHANGED <<fr_out, fr_buf, fr_in, fr_pc>>

\* send_message on the connection the receiver has closed: drain raises and
\* the call returns False, or the loss is not yet known and it returns True
FrSendClosed(r) ==
    /\ Len(fr_res) < Len(fr_out)
    /\ fr_pc = "closed"
    /\ fr_res' = Append(fr_res, r)
    /\ UNCHANGED <<fr_out, fr_wire, fr_buf, fr_in, fr_pc>>

\* n bytes arrive in the receiver's buffer
FrArrive(n) ==
    /\ n \in 1..Len(fr_wire)
    /\ fr_pc = "read"
    /\ fr_buf' = fr_buf \o SubSeq(fr_wire, 1, n)
    /\ fr_wire' = SubSeq(fr_wire, n + 1, Len(fr_wire))
    /\ UNCHANGED <<fr_out, fr_res, fr_in, fr_pc>>

\* _handle_connection, lines 228-257: readuntil returns a frame, which is
\* decoded and handed to the message handler, or dropped if json.loads
\* raises; or readuntil raises LimitOverrunError, the writer is closed and the
\* loop breaks
FrRead ==
    /\ fr_pc = "read"
    /\ IF LimitOverrun(fr_buf)
       THEN /\ fr_pc' = "closed"
            /\ UNCHANGED <<fr_buf, fr_in>>
       ELSE /\ SepIndex(fr_buf) # 0
            /\ LET i == SepIndex(fr_buf)
                   message == DecodeFrame(SubSeq(fr_buf, 1, i))
               IN  /\ fr_buf' = SubSeq(fr_buf, i + 1, Len(fr_buf))
                   /\ fr_in' = IF message = JSONDecodeError
                               THEN fr_in ELSE Append(fr_in, message)
            /\ UNCHANGED fr_pc
    /\ UNCHANGED <<fr_out, fr_res, fr_wire>>

FrameNext ==
    \/ FrSend /\ UNCHANGED notFrVars
    \/ \E r \in {"True", "False"} : FrSendClosed(r) /\ UNCHANGED notFrVars
    \/ \E n \in 1..(MaxMsgs * (2 * MaxValueLen + 3)) : FrArrive(n) /\ UNCHANGED notFrVars
    \/ FrRead /\ UNCHANGED notFrVars

(* ----------- the Connection Manager: connect_to_peer in steps ----------- *)

NoCT == [stage |-> "idle", peer_id |-> Absent, idx |-> 0, result |-> "none"]

\* no connect_to_peer call and no cached binding
CTIdle ==
    /\ stun_results = <<>>
    /\ ct = NoCT
    /\ ct_tried = <<>>

\* a manager whose start() has cached up to MaxStun bindings
CTInit ==
    /\ stun_results \in UNION {[1..n -> StunAddrs] : n \in 0..MaxStun}
    /\ ct = NoCT
    /\ ct_tried = <<>>

\* the addresses tried in the reverse order
Addresses_stun_first(sr) == sr \o <<DirectAddr>>

\* connect_to_peer, lines 144 and 156-159: the addresses a call awaits
\* _try_direct_connection for, one after the other: peer_addr, then the
\* mapped_address of each binding of self.stun_results
Addresses(sr) == <<DirectAddr>> \o sr

\* the call goes on after a connection was made
StopsAt_never(result) == FALSE

\* connect_to_peer, lines 145 and 160: `if result:` ends the call
StopsAt(result) == result

\* the application calls connect_to_peer(peer_id, peer_addr): the call runs
\* to the await of _try_direct_connection(peer_addr)
CTCall(peer_id) ==
    /\ ct.stage \in {"idle", "returned"}
    /\ ct' = [stage |-> "try", peer_id |-> peer_id, idx |-> 1, result |-> "none"]
    /\ ct_tried' = <<>>
    /\ UNCHANGED <<stun_results, cmVars>>

\* connect_to_peer, lines 170-173: no address is left; the reconnect task is
\* started and the call returns False
CTExhausted ==
    /\ _start_reconnect_task(ct.peer_id, loop)
    /\ ct' = [ct EXCEPT !.stage = "returned", !.result = "False"]

\* the awaited _try_direct_connection returns: a connection (ok) or None
CTAttempt(ok) ==
    /\ ct.stage = "try"
    /\ ct_tried' = Append(ct_tried,
                          [addr |-> Addresses(stun_results)[ct.idx], ok |-> ok])
    /\ IF ok
       THEN \E s \in Socks :
                StoreConnection(ct.peer_id, s,
                                IF Addresses(stun_results)[ct.idx] = DirectAddr
                                THEN "direct" ELSE "stun")
       ELSE UNCHANGED <<cm_peers, sock, owner, kind>>
    /\ IF StopsAt(ok)
       THEN /\ ct' = [ct EXCEPT !.stage = "returned", !.result = "True"]
            /\ UNCHANGED <<reconnect_tasks, loop>>
       ELSE IF ct.idx < Len(Addresses(stun_results))
            THEN /\ ct' = [ct EXCEPT !.idx = @ + 1]
                 /\ UNCHANGED <<reconnect_tasks, loop>>
            ELSE CTExhausted
    /\ UNCHANGED <<stun_results, listener, hpc, call, stopPc, stopTodo>>

\* one application task calling connect_to_peer again and again for either
\* peer, with the reconnection loops running beside it
CTNext ==
    \/ \E i \in CMIds : CTCall(i) /\ UNCHANGED notCTVars
    \/ \E ok \in BOOLEAN : CTAttempt(ok) /\ UNCHANGED notCTVars
    \/ \E i \in CMIds : ReconnectWake(i) /\ UNCHANGED notCMVars
    \/ \E i \in CMIds : ReconnectOk(i, "direct") /\ UNCHANGED notCMVars
    \/ \E i \in CMIds : ReconnectFail(i) /\ UNCHANGED notCMVars

(* --------------------------- the STUN client --------------------------- *)

\* a and b, two numbers of n bits, combined bit by bit: Python's a ^ b
RECURSIVE BitXor(_, _, _)
BitXor(a, b, n) ==
    IF n = 0 THEN 0
    ELSE (((a % 2) + (b % 2)) % 2) + 2 * BitXor(a \div 2, b \div 2, n - 1)

\* StunMessage.MAGIC_COOKIE, 0x2112A442, as the bytes of its 32 bits
MAGIC_COOKIE == <<33, 18, 164, 66>>

\* struct.unpack_from(">H", data, off): two bytes, the high one first
UnpackH(data, off) == data[off + 1] * 256 + data[off + 2]

\* the low 16 bits of the cookie
CookieShift_low(cookie) == cookie[3] * 256 + cookie[4]

\* magic_cookie >> 16
CookieShift(cookie) == cookie[1] * 256 + cookie[2]

NoAddress == [ip |-> <<>>, port |-> 0 - 1]
Unparsed == [ip |-> <<>>, port |-> 0 - 2]

\* _parse_xor_mapped_address(data, magic_cookie): None for an attribute that
\* is too short for unpack_from (struct.error) or not of family 0x0001;
\* otherwise the port field and the address field, each XORed with the
\* cookie; struct.pack(">I", addr) and inet_ntoa give the address octet by
\* octet, the high one first
_parse_xor_mapped_address(data, magic_cookie) ==
    IF Len(data) < 2 THEN NoAddress
    ELSE IF UnpackH(data, 0) # 1 THEN NoAddress
    ELSE IF Len(data) < 8 THEN NoAddress
    ELSE [ip |-> [n \in 1..4 |-> BitXor(data[4 + n], magic_cookie[n], 8)],
          port |-> BitXor(UnpackH(data, 2), CookieShift(magic_cookie), 16)]

\* no binding in progress
StunIdle ==
    /\ xa_addr = <<0, 0, 0, 0>>
    /\ xa_port = 0
    /\ xa_data = <<>>
    /\ xa_res = Unparsed

\* a client whose reflexive transport address is a, p
StunInit ==
    /\ xa_addr \in [1..4 -> ByteSamples]
    /\ xa_port \in PortSamples
    /\ xa_data = <<>>
    /\ xa_res = Unparsed

\* the X-Port a server computes for the port p: p XOR the 16 most
\* significant bits of the cookie
XPort(p) == BitXor(p, MAGIC_COOKIE[1] * 256 + MAGIC_COOKIE[2], 16)

\* the server's Binding response arrives with an XOR-MAPPED-ADDRESS of the
\* given family, whole or cut short to len bytes: reserved byte, family,
\* X-Port, X-Address
StunResponse(family, len) ==
    /\ xa_data = <<>>
    /\ xa_data' = SubSeq(<<0, family,
                           XPort(xa_port) \div 256,
                           XPort(xa_port) % 256,
                           BitXor(xa_addr[1], MAGIC_COOKIE[1], 8),
                           BitXor(xa_addr[2], MAGIC_COOKIE[2], 8),
                           BitXor(xa_addr[3], MAGIC_COOKIE[3], 8),
                           BitXor(xa_addr[4], MAGIC_COOKIE[4], 8)>>, 1, len)
    /\ UNCHANGED <<xa_addr, xa_port, xa_res>>

\* get_binding -> _parse_mapped_address: the attribute is parsed
StunParse ==
    /\ xa_data # <<>>
    /\ xa_res = Unparsed
    /\ xa_res' = _parse_xor_mapped_address(xa_data, MAGIC_COOKIE)
    /\ UNCHANGED <<xa_addr, xa_port, xa_data>>

StunNext ==
    \/ \E family \in {1, 2}, len \in {4, 8} :
            StunResponse(family, len) /\ UNCHANGED notStunVars
    \/ StunParse /\ UNCHANGED notStunVars

(* --------------------------- the TURN client --------------------------- *)

NoTurnCall == [op |-> "none", stage |-> "idle", ip |-> Absent, result |-> "none"]

\* what _receive and TurnMessage.unpack give a call that awaits a response:
\* nothing within the timeout, bytes unpack rejects, or a message of a type
TurnResponses ==
    {"none", "unparsable", "ALLOCATION_RESPONSE", "ALLOCATION_ERROR_RESPONSE",
     "CREATE_PERMISSION_RESPONSE", "other"}

PermissionRequest(ip) == [type |-> "CREATE_PERMISSION_REQUEST", peer |-> ip]
SendIndication(ip) == [type |-> "SEND_INDICATION", peer |-> ip]

\* __init__: no allocation, no permission
TurnInit ==
    /\ relayed_addr = Absent
    /\ permissions = {}
    /\ tc = [k \in TurnCalls |-> NoTurnCall]
    /\ turn_sent = <<>>
    /\ cp_granted = {}

\* the call k returns r
TurnReturn(k, r) == tc' = [tc EXCEPT ![k].stage = "returned", ![k].result = r]

\* a slot for a new call: the calls start in the order of their slots
TurnFree(k) ==
    /\ tc[k].stage \in {"idle", "returned"}
    /\ \A j \in TurnCalls : j < k => tc[j].stage # "idle"

\* allocate(), lines 344-363 (and connect(), lines 254-317): the request is
\* sent and the response awaited
allocate(k) ==
    /\ TurnFree(k)
    /\ tc' = [tc EXCEPT ![k] = [op |-> "allocate", stage |-> "recv",
                                ip |-> Absent, result |-> "none"]]
    /\ turn_sent' = <<[type |-> "ALLOCATION_REQUEST", peer |-> Absent]>>
    /\ UNCHANGED <<relayed_addr, permissions, cp_granted>>

\* allocate(), lines 365-395 (connect(), lines 318-334): an
\* ALLOCATION_RESPONSE whose XOR-RELAYED-ADDRESS parses sets relayed_addr
AllocateResponse(k, resp, parses) ==
    /\ tc[k].op = "allocate" /\ tc[k].stage = "recv"
    /\ IF resp = "ALLOCATION_RESPONSE" /\ parses
       THEN relayed_addr' = "relay" /\ TurnReturn(k, "True")
       ELSE UNCHANGED relayed_addr /\ TurnReturn(k, "False")
    /\ turn_sent' = <<>>
    /\ UNCHANGED <<permissions, cp_granted>>

\* create_permission(peer_addr), lines 397-407: False without an allocation;
\* otherwise the request is built and _send awaited
create_permission(k, ip) ==
    /\ TurnFree(k)
    /\ tc' = [tc EXCEPT ![k] =
                IF relayed_addr = Absent
                THEN [op |-> "create_permission", stage |-> "returned",
                      ip |-> ip, result |-> "False"]
                ELSE [op |-> "create_permission", stage |-> "send",
                      ip |-> ip, result |-> "none"]]
    /\ turn_sent' = <<>>
    /\ UNCHANGED <<relayed_addr, permissions, cp_granted>>

\* create_permission, line 407: _send hands the request to the socket, or
\* raises and the call returns False (lines 427-429)
PermissionSend(k, raises) ==
    /\ tc[k].op = "create_permission" /\ tc[k].stage = "send"
    /\ IF raises
       THEN turn_sent' = <<>> /\ TurnReturn(k, "False")
       ELSE /\ turn_sent' = <<PermissionRequest(tc[k].ip)>>
            /\ tc' = [tc EXCEPT ![k].stage = "recv"]
    /\ UNCHANGED <<relayed_addr, permissions, cp_granted>>

\* any response grants the permission
Grants_any(resp) == resp # "none"

\* create_permission, line 421:
\* `response.message_type == TurnMessage.CREATE_PERMISSION_RESPONSE`
Grants(resp) == resp = "CREATE_PERMISSION_RESPONSE"

\* create_permission, lines 409-425: the response awaited arrives, or none
PermissionResponse(k, resp) ==
    /\ tc[k].op = "create_permission" /\ tc[k].stage = "recv"
    /\ IF Grants(resp)
       THEN /\ permissions' = permissions \cup {tc[k].ip}
            /\ TurnReturn(k, "True")
       ELSE /\ UNCHANGED permissions
            /\ TurnReturn(k, "False")
    /\ cp_granted' = IF resp = "CREATE_PERMISSION_RESPONSE"
                     THEN cp_granted \cup {tc[k].ip} ELSE cp_granted
    /\ turn_sent' = <<>>
    /\ UNCHANGED relayed_addr

\* a send_data that looks at no permission
MaySend_unchecked(ip) == relayed_addr # Absent

\* send_data, lines 434-440: `if not self.relayed_addr` and
\* `if peer_addr[0] not in self.permissions`
MaySend(ip) == relayed_addr # Absent /\ ip \in permissions

\* send_data(data, peer_addr), lines 431-445: False when a guard fails;
\* otherwise the indication is built and _send awaited
send_data(k, ip) ==
    /\ TurnFree(k)
    /\ tc' = [tc EXCEPT ![k] =
                IF MaySend(ip)
                THEN [op |-> "send_data", stage |-> "send",
                      ip |-> ip, result |-> "none"]
                ELSE [op |-> "send_data", stage |-> "returned",
                      ip |-> ip, result |-> "False"]]
    /\ turn_sent' = <<>>
    /\ UNCHANGED <<relayed_addr, permissions, cp_granted>>

\* send_data, lines 445-451: _send hands the indication to the socket and
\* the call returns True, or raises and the call returns False
DataSend(k, raises) ==
    /\ tc[k].op = "send_data" /\ tc[k].stage = "send"
    /\ IF raises
       THEN turn_sent' = <<>> /\ TurnReturn(k, "False")
       ELSE turn_sent' = <<SendIndication(tc[k].ip)>> /\ TurnReturn(k, "True")
    /\ UNCHANGED <<relayed_addr, permissions, cp_granted>>

TurnNext ==
    \/ \E k \in TurnCalls : allocate(k) /\ UNCHANGED notTurnVars
    \/ \E k \in TurnCalls, resp \in TurnResponses, parses \in BOOLEAN :
            AllocateResponse(k, resp, parses) /\ UNCHANGED notTurnVars
    \/ \E k \in TurnCalls, ip \in TurnIPs :
            create_permission(k, ip) /\ UNCHANGED notTurnVars
    \/ \E k \in TurnCalls, raises \in BOOLEAN :
            PermissionSend(k, raises) /\ UNCHANGED notTurnVars
    \/ \E k \in TurnCalls, resp \in TurnResponses :
            PermissionResponse(k, resp) /\ UNCHANGED notTurnVars
    \/ \E k \in TurnCalls, ip \in TurnIPs :
            send_data(k, ip) /\ UNCHANGED notTurnVars
    \/ \E k \in TurnCalls, raises \in BOOLEAN :
            DataSend(k, raises) /\ UNCHANGED notTurnVars

(* ---------------------------- node discovery --------------------------- *)

\* node_addr = f"{peer_ip}:{peer_port}": one key for each ip and port
NodeAddrs == (OtherIPs \cup {OwnIP}) \X (NodePorts \ {0})
NoNode == [ip |-> Absent, port |-> 0, last_seen |-> [kind |-> "none", t |-> 0]]

\* the values of the two clocks read: time.time() is a float,
\* datetime.utcnow() a datetime
time_time == [kind |-> "float", t |-> d_now]
datetime_utcnow == [kind |-> "datetime", t |-> d_now]

\* message.get('port') of a message without a port: None
NoPort == 0 - 1

\* the datagrams that arrive on the discovery port from other nodes
Datagrams ==
    [src : OtherIPs, type : {"announce", "other"}, port : NodePorts \cup {NoPort}]
\* the announce broadcast_presence sends, as it comes back from the network
OwnAnnounce == [src |-> OwnIP, type |-> "announce", port |-> node_port]

NoResult == [raised |-> "none", nodes |-> {}]

\* __init__ and start()
DiscIdle ==
    /\ node_port = 0
    /\ active_nodes = [a \in NodeAddrs |-> NoNode]
    /\ d_now = 0
    /\ d_own = FALSE
    /\ d_result = NoResult

\* a node created with either a node port or the default 0
DiscInit ==
    /\ node_port \in NodePorts
    /\ active_nodes = [a \in NodeAddrs |-> NoNode]
    /\ d_now = 0
    /\ d_own = FALSE
    /\ d_result = NoResult

\* broadcast_presence, lines 84-92: the announce is sent to the broadcast
\* address and the discovery port, where this node's socket is bound too
broadcast_presence ==
    /\ d_own' = TRUE
    /\ UNCHANGED <<node_port, active_nodes, d_now, d_result>>

\* on_node_discovered(peer_ip, peer_port) applied to the map
on_node_discovered(peer_ip, peer_port) ==
    active_nodes' = [active_nodes EXCEPT ![<<peer_ip, peer_port>>] =
                        [ip |-> peer_ip, port |-> peer_port, last_seen |-> time_time]]

\* listen_for_nodes, lines 114-116: `message.get('type') == 'announce'` and
\* `if port`
Announces(d) == d.type = "announce" /\ d.port \notin {0, NoPort}

\* listen_for_nodes, lines 112-119: sock_recvfrom returns the datagram d
listen_for_nodes(d) ==
    /\ IF Announces(d)
       THEN on_node_discovered(d.src, d.port)
       ELSE UNCHANGED active_nodes
    /\ UNCHANGED <<node_port, d_now, d_result>>

\* the node's own broadcast comes back
ListenOwn ==
    /\ d_own
    /\ d_own' = FALSE
    /\ listen_for_nodes(OwnAnnounce)

\* a datagram of another node arrives
ListenOther(d) ==
    /\ listen_for_nodes(d)
    /\ UNCHANGED d_own

\* current_time - info['last_seen']: a datetime minus a datetime is the
\* timedelta between them; a datetime minus a float raises TypeError
Minus(a, b) ==
    IF a.kind = b.kind
    THEN [raised |-> FALSE, seconds |-> a.t - b.t]
    ELSE [raised |-> TRUE, seconds |-> 0]

\* the entries of the map
Known == {a \in NodeAddrs : active_nodes[a] # NoNode}

\* get_active_nodes, lines 133-145: the entries are visited in the order of
\* the dict; the age of each is computed, the young ones are collected and
\* the others deleted; an age that raises ends the call at the first entry
\* visited (every last_seen is of one kind)
get_active_nodes ==
    /\ LET current_time == datetime_utcnow
           age(a) == Minus(current_time, active_nodes[a].last_seen)
       IN  IF \E a \in Known : age(a).raised
           THEN /\ d_result' = [raised |-> "TypeError", nodes |-> {}]
                /\ UNCHANGED active_nodes
           ELSE LET active == {a \in Known : age(a).seconds < node_timeout}
                IN  /\ d_result' = [raised |-> "no",
                                    nodes |-> {active_nodes[a] : a \in active}]
                    /\ active_nodes' = [a \in NodeAddrs |->
                            IF a \in active THEN active_nodes[a] ELSE NoNode]
    /\ UNCHANGED <<node_port, d_now, d_own>>

\* time passes
DiscTick ==
    /\ d_now < MaxTime
    /\ d_now' = d_now + 1
    /\ UNCHANGED <<node_port, active_nodes, d_own, d_result>>

DiscNext ==
    \/ broadcast_presence /\ UNCHANGED notDiscVars
    \/ ListenOwn /\ UNCHANGED notDiscVars
    \/ \E d \in Datagrams : ListenOther(d) /\ UNCHANGED notDiscVars
    \/ get_active_nodes /\ UNCHANGED notDiscVars
    \/ DiscTick /\ UNCHANGED notDiscVars

(* ----------------- NetworkManager: the tables and stop() ---------------- *)

NoStop == [pc |-> "idle", visited |-> {}, size |-> 0]

\* __init__ and a start() that has created the server
NTInit ==
    /\ nt_ws = [c \in NMConns |-> "none"]
    /\ nt_id = [c \in NMConns |-> Absent]
    /\ nt_pc = [c \in NMConns |-> "none"]
    /\ nt_peers = [i \in NMIds |-> NoConn]
    /\ nt_tasks = [i \in NMIds |-> NoConn]
    /\ nt_hb = [c \in NMConns |-> "none"]
    /\ nt_server = "open"
    /\ nt_stop = NoStop

\* the keys of a table
NTKeys(t) == {i \in NMIds : t[i] # NoConn}

\* task.cancel() of the tasks of the connections cs
NTCancel(hb, cs) ==
    [c \in NMConns |-> IF c \in cs /\ hb[c] = "running" THEN "cancelled" ELSE hb[c]]

\* handle_connection, lines 832-846: the server accepts connection c, whose
\* first frame is an auth message with user_id i; the websocket is stored
\* under i, a heartbeat_check task is created and stored under i, and the
\* handler awaits the next frame
NTAuth(c, i) ==
    /\ nt_server = "open"
    /\ nt_ws[c] = "none"
    /\ \A d \in NMConns : d < c => nt_ws[d] # "none"
    /\ nt_ws' = [nt_ws EXCEPT ![c] = "open"]
    /\ nt_id' = [nt_id EXCEPT ![c] = i]
    /\ nt_pc' = [nt_pc EXCEPT ![c] = "serve"]
    /\ nt_peers' = [nt_peers EXCEPT ![i] = c]
    /\ nt_tasks' = [nt_tasks EXCEPT ![i] = c]
    /\ nt_hb' = [nt_hb EXCEPT ![c] = "running"]
    /\ UNCHANGED <<nt_server, nt_stop>>

\* the peer closes connection c, or its transport fails
NTClose(c) ==
    /\ nt_ws[c] = "open"
    /\ nt_ws' = [nt_ws EXCEPT ![c] = "closed"]
    /\ UNCHANGED <<nt_id, nt_pc, nt_peers, nt_tasks, nt_hb, nt_server, nt_stop>>

\* heartbeat_check, lines 929-938: the send on the closed websocket raises
\* ConnectionClosed and the loop breaks
NTHeartbeatEnds(c) ==
    /\ nt_hb[c] = "running"
    /\ nt_ws[c] = "closed"
    /\ nt_hb' = [nt_hb EXCEPT ![c] = "ended"]
    /\ UNCHANGED <<nt_ws, nt_id, nt_pc, nt_peers, nt_tasks, nt_server, nt_stop>>

\* handle_connection, lines 849-860: the `async for` of connection c ends on
\* the closed websocket; the finally block deletes the entry of peer_id and
\* cancels and deletes the heartbeat task stored under peer_id
NTHandlerEnds(c) ==
    /\ nt_pc[c] = "serve"
    /\ nt_ws[c] = "closed"
    /\ nt_pc' = [nt_pc EXCEPT ![c] = "done"]
    /\ nt_peers' = [nt_peers EXCEPT ![nt_id[c]] = NoConn]
    /\ nt_hb' = NTCancel(nt_hb, {nt_tasks[nt_id[c]]})
    /\ nt_tasks' = [nt_tasks EXCEPT ![nt_id[c]] = NoConn]
    /\ UNCHANGED <<nt_ws, nt_id, nt_server, nt_stop>>

\* stop(), lines 813-824, at the head of `for peer in
\* self.connected_peers.values()` with the iterator made for a dict of size
\* entries and the keys visited behind it: the iterator raises RuntimeError
\* when the dict has another size; the next websocket is closed and its
\* close() awaited; after the last the dict is cleared, the server closed and
\* its wait_closed awaited
NTStopIterate(visited, size) ==
    IF Cardinality(NTKeys(nt_peers)) # size
    THEN /\ nt_stop' = [pc |-> "raised", visited |-> {}, size |-> 0]
         /\ UNCHANGED <<nt_ws, nt_peers, nt_server>>
    ELSE IF NTKeys(nt_peers) \ visited = {}
    THEN /\ nt_stop' = [pc |-> "wait_closed", visited |-> {}, size |-> 0]
         /\ nt_peers' = [i \in NMIds |-> NoConn]
         /\ nt_server' = "closed"
         /\ UNCHANGED nt_ws
    ELSE \E i \in NTKeys(nt_peers) \ visited :
            /\ nt_stop' = [pc |-> "close", visited |-> visited \cup {i},
                           size |-> size]
            /\ nt_ws' = [nt_ws EXCEPT ![nt_peers[i]] = "closed"]
            /\ UNCHANGED <<nt_peers, nt_server>>

\* stop(), lines 806-814: the heartbeat tasks are cancelled and the dict
\* cleared, and the iteration over connected_peers begins
NTStop ==
    /\ nt_stop.pc = "idle"
    /\ nt_hb' = NTCancel(nt_hb, {nt_tasks[i] : i \in NTKeys(nt_tasks)})
    /\ nt_tasks' = [i \in NMIds |-> NoConn]
    /\ NTStopIterate({}, Cardinality(NTKeys(nt_peers)))
    /\ UNCHANGED <<nt_id, nt_pc>>

\* stop(), line 814: `await peer.close()` returns
NTStopResume ==
    /\ nt_stop.pc = "close"
    /\ NTStopIterate(nt_stop.visited, nt_stop.size)
    /\ UNCHANGED <<nt_id, nt_pc, nt_tasks, nt_hb>>

\* stop(), lines 824-826: server.wait_closed() returns and stop() returns
NTStopReturns ==
    /\ nt_stop.pc = "wait_closed"
    /\ nt_stop' = [nt_stop EXCEPT !.pc = "returned"]
    /\ UNCHANGED <<nt_ws, nt_id, nt_pc, nt_peers, nt_tasks, nt_hb, nt_server>>

NTNext ==
    \/ \E c \in NMConns, i \in NMIds : NTAuth(c, i) /\ UNCHANGED notNTVars
    \/ \E c \in NMConns : NTClose(c) /\ UNCHANGED notNTVars
    \/ \E c \in NMConns : NTHeartbeatEnds(c) /\ UNCHANGED notNTVars
    \/ \E c \in NMConns : NTHandlerEnds(c) /\ UNCHANGED notNTVars
    \/ NTStop /\ UNCHANGED notNTVars
    \/ NTStopResume /\ UNCHANGED notNTVars
    \/ NTStopReturns /\ UNCHANGED notNTVars

(* ------------------ NetworkManager.start: port probing ------------------ *)

PPIdle ==
    /\ pp_bindable = {}
    /\ pp_pc = "idle"
    /\ pp_port = BasePort
    /\ pp_attempt = 0
    /\ pp_probed = <<>>
    /\ pp_server = FALSE

\* a NetworkManager with its user info set, on a host with some ports free
PPInit ==
    /\ pp_bindable \in SUBSET ProbeSamples
    /\ pp_pc = "idle"
    /\ pp_port = BasePort
    /\ pp_attempt = 0
    /\ pp_probed = <<>>
    /\ pp_server = FALSE

\* `port += 1`
NextPort_skip(p) == p + 2
NextPort(p) == p + 1

\* start(None), lines 727-737: wait_for_init returns, the user info is set,
\* and the loop begins at port 8000
PPStart ==
    /\ pp_pc = "idle"
    /\ pp_pc' = "probe"
    /\ pp_port' = BasePort
    /\ pp_attempt' = 0
    /\ UNCHANGED <<pp_bindable, pp_probed, pp_server>>

\* one iteration of `for attempt in range(max_attempts)`, lines 737-767: the
\* test socket is bound to port; on success the loop breaks, on OSError the
\* port is incremented and, in the last iteration, RuntimeError is raised,
\* caught by the outer except (which increments again) and raised again
PPProbe ==
    /\ pp_pc = "probe"
    /\ pp_attempt < max_attempts
    /\ pp_probed' = Append(pp_probed, pp_port)
    /\ IF pp_port \in pp_bindable
       THEN /\ pp_pc' = "serve"
            /\ UNCHANGED <<pp_port, pp_attempt>>
       ELSE IF pp_attempt = max_attempts - 1
       THEN /\ pp_pc' = "no_port"
            /\ pp_port' = NextPort(NextPort(pp_port))
            /\ UNCHANGED pp_attempt
       ELSE /\ pp_pc' = "probe"
            /\ pp_port' = NextPort(pp_port)
            /\ pp_attempt' = pp_attempt + 1
    /\ UNCHANGED <<pp_bindable, pp_server>>

\* lines 779-798: websockets.serve on the port found returns the server, or
\* raises (the port was taken since the probe) and start() raises
PPServe(ok) ==
    /\ pp_pc = "serve"
    /\ pp_pc' = IF ok THEN "listening" ELSE "serve_failed"
    /\ pp_server' = ok
    /\ UNCHANGED <<pp_bindable, pp_port, pp_attempt, pp_probed>>

PPNext ==
    \/ PPStart /\ UNCHANGED notPPVars
    \/ PPProbe /\ UNCHANGED notPPVars
    \/ \E ok \in BOOLEAN : PPServe(ok) /\ UNCHANGED notPPVars

(* ------------- send_message: the on-demand establishment --------------- *)

ESRest ==
    /\ es_pc = "idle"
    /\ es_port = 1
    /\ es_calls = 0
    /\ es_writer = [p \in EstPorts |-> "none"]
    /\ es_in = [p \in EstPorts |-> <<>>]
    /\ es_out = [p \in EstPorts |-> <<>>]
    /\ es_admitted = [p \in EstPorts |-> FALSE]
    /\ es_handled = [p \in EstPorts |-> FALSE]
    /\ es_result = "none"

ESIdle ==
    /\ es_host = [p \in EstPorts |-> "none"]
    /\ es_entry = NoEntry
    /\ ESRest

\* a manager without a live connection to peer_id, on a host with some
\* listeners
ESInit ==
    /\ es_host \in [EstPorts -> EstHosts]
    /\ es_entry \in {NoEntry, StaleEntry}
    /\ ESRest

\* send_message, line 279: `not peer or not peer.connection or
\* peer.connection.is_closing()`
NotConnected(entry) == entry = NoEntry \/ entry = StaleEntry

\* _establish_connection, lines 315-330: the table after open_connection has
\* succeeded and the auth frame is written; nothing is stored yet
EntryAfterConnect_stored(entry, p) == p
EntryAfterConnect(entry, p) == entry

\* _establish_connection, line 340
IsAuthReply(response) == response = "auth_reply"

\* send_message, lines 278-281: no live connection, and
\* _establish_connection is called and awaits open_connection to the first
\* port
ESSend ==
    /\ es_pc = "idle"
    /\ NotConnected(es_entry)
    /\ es_pc' = "connect"
    /\ es_port' = 1
    /\ es_calls' = es_calls + 1
    /\ UNCHANGED <<es_host, es_entry, es_writer, es_in, es_out, es_admitted,
                   es_handled, es_result>>

\* _establish_connection goes on to the next port of the range, or leaves the
\* loop and returns False (lines 357-358), and send_message returns False
\* (lines 281-283)
ESContinue ==
    IF es_port < NEstPort
    THEN /\ es_pc' = "connect"
         /\ es_port' = es_port + 1
         /\ UNCHANGED es_result
    ELSE /\ es_pc' = "returned"
         /\ es_result' = "False"
         /\ UNCHANGED es_port

\* lines 315-330: open_connection to the port is refused, or it succeeds and
\* the auth frame is written and drained
ESConnect ==
    /\ es_pc = "connect"
    /\ IF es_host[es_port] = "none"
       THEN /\ ESContinue
            /\ UNCHANGED <<es_entry, es_writer, es_in>>
       ELSE /\ es_writer' = [es_writer EXCEPT ![es_port] = "open"]
            /\ es_in' = [es_in EXCEPT ![es_port] = Append(@, "auth")]
            /\ es_entry' = EntryAfterConnect(es_entry, es_port)
            /\ es_pc' = "reply"
            /\ UNCHANGED <<es_port, es_result>>
    /\ UNCHANGED <<es_host, es_calls, es_out, es_admitted, es_handled>>

\* the listener of port p reads a frame.  A Connection Manager runs
\* _handle_connection, lines 228-244: the first frame with a peer_id admits
\* the connection and the loop continues, a later frame goes to the message
\* handler; it writes nothing.  The other servers answer the auth frame.
ESListenerReads(p) ==
    /\ es_in[p] # <<>>
    /\ es_in' = [es_in EXCEPT ![p] = Tail(@)]
    /\ IF es_host[p] = "manager"
       THEN /\ es_admitted' = [es_admitted EXCEPT ![p] = TRUE]
            /\ es_handled' = [es_handled EXCEPT ![p] = @ \/ es_admitted[p]]
            /\ UNCHANGED es_out
       ELSE /\ es_out' = [es_out EXCEPT ![p] = Append(@,
                    CASE es_host[p] = "replier" -> "auth_reply"
                      [] es_host[p] = "wrongtype" -> "other"
                      [] OTHER -> "not_json")]
            /\ UNCHANGED <<es_admitted, es_handled>>
    /\ UNCHANGED <<es_host, es_entry, es_pc, es_port, es_calls, es_writer,
                   es_result>>

\* lines 333-348 and 360-362: readuntil returns the answer of the listener.
\* An auth_reply stores the connection and returns True, and send_message
\* writes the message (lines 286-297); a frame of another type lets the loop
\* go on; a line that is not JSON raises and False is returned
ESReply ==
    /\ es_pc = "reply"
    /\ es_out[es_port] # <<>>
    /\ es_out' = [es_out EXCEPT ![es_port] = Tail(@)]
    /\ LET response == Head(es_out[es_port])
       IN  IF IsAuthReply(response)
           THEN /\ es_entry' = es_port
                /\ es_in' = [es_in EXCEPT ![es_port] = Append(@, "message")]
                /\ es_pc' = "drain"
                /\ UNCHANGED <<es_port, es_result>>
           ELSE IF response = "not_json"
           THEN /\ es_pc' = "returned"
                /\ es_result' = "False"
                /\ UNCHANGED <<es_entry, es_in, es_port>>
           ELSE /\ ESContinue
                /\ UNCHANGED <<es_entry, es_in>>
    /\ UNCHANGED <<es_host, es_calls, es_writer, es_admitted, es_handled>>

\* lines 350-352: no answer within 2 s, after the listener has read the auth
\* frame and answered nothing; the writer is closed and the loop continues
ESTimeout ==
    /\ es_pc = "reply"
    /\ es_in[es_port] = <<>>
    /\ es_out[es_port] = <<>>
    /\ es_writer' = [es_writer EXCEPT ![es_port] = "closed"]
    /\ ESContinue
    /\ UNCHANGED <<es_host, es_entry, es_calls, es_in, es_out, es_admitted,
                   es_handled>>

\* send_message, lines 297-298: drain returns and send_message returns True
ESDrain ==
    /\ es_pc = "drain"
    /\ es_pc' = "returned"
    /\ es_result' = "True"
    /\ UNCHANGED <<es_host, es_entry, es_port, es_calls, es_writer, es_in,
                   es_out, es_admitted, es_handled>>

ESNext ==
    \/ ESSend /\ UNCHANGED notESVars
    \/ ESConnect /\ UNCHANGED notESVars
    \/ \E p \in EstPorts : ESListenerReads(p) /\ UNCHANGED notESVars
    \/ ESReply /\ UNCHANGED notESVars
    \/ ESTimeout /\ UNCHANGED notESVars
    \/ ESDrain /\ UNCHANGED notESVars

(* -------------------------- _get_stun_bindings -------------------------- *)

SBRest ==
    /\ sb_pc = "idle"
    /\ sb_next = 1
    /\ sb_queried = <<>>
    /\ sb_added = <<>>
    /\ successful_bindings = 0

SBIdle ==
    /\ sb_outcome = [s \in 1..Len(stun_servers) |-> "timeout"]
    /\ SBRest

SBInit ==
    /\ sb_outcome \in [1..Len(stun_servers) -> QueryOutcomes]
    /\ SBRest

\* StunClient.get_binding, lines 155-192: the binding, or None
get_binding(oc) == IF oc = "binding" THEN "binding" ELSE "None"

\* _get_stun_bindings, line 132: `if successful_bindings >= 2`
EnoughBindings_never(n) == FALSE
EnoughBindings(n) == n >= 2

\* start(), line 97, calls _get_stun_bindings (lines 105-108)
SBStart ==
    /\ sb_pc = "idle"
    /\ sb_pc' = "loop"
    /\ sb_next' = 1
    /\ successful_bindings' = 0
    /\ UNCHANGED <<sb_outcome, sb_queried, sb_added>>

\* one iteration of `for server in self.stun_servers`, lines 108-138: a
\* client is made and connected, the binding requested and the client
\* closed; a binding is appended and counted and the loop left at two, an
\* exception of connect() is caught and logged; after the last server the
\* function returns
SBQuery ==
    /\ sb_pc = "loop"
    /\ sb_next <= Len(stun_servers)
    /\ sb_queried' = Append(sb_queried, stun_servers[sb_next])
    /\ LET oc == sb_outcome[sb_next]
           binding == IF oc = "connect_error" THEN "None"
                      ELSE get_binding(oc)
           n == IF binding = "None" THEN successful_bindings
                ELSE successful_bindings + 1
       IN  /\ successful_bindings' = n
           /\ sb_added' = IF binding = "None" THEN sb_added
                          ELSE Append(sb_added, stun_servers[sb_next])
           /\ IF (binding # "None" /\ EnoughBindings(n)) \/ sb_next = Len(stun_servers)
              THEN sb_pc' = "returned" /\ UNCHANGED sb_next
              ELSE sb_pc' = "loop" /\ sb_next' = sb_next + 1
    /\ UNCHANGED sb_outcome

SBNext ==
    \/ SBStart /\ UNCHANGED notSBVars
    \/ SBQuery /\ UNCHANGED notSBVars

(* -------------------- TurnClient.connect and allocate ------------------- *)

TARest ==
    /\ ta_pc = [c \in TurnClients |-> "idle"]
    /\ ta_sent = [c \in TurnClients |-> <<>>]
    /\ ta_answers = [c \in TurnClients |-> <<>>]
    /\ ta_realm = [c \in TurnClients |-> "None"]
    /\ ta_relayed = [c \in TurnClients |-> Absent]
    /\ ta_allocate = [c \in TurnClients |-> "not_called"]

TAIdle == ta_creds = [c \in TurnClients |-> FALSE] /\ TARest

\* TurnClients with or without credentials
TAInit == ta_creds \in [TurnClients -> BOOLEAN] /\ TARest

\* TurnMessage.create_allocation_request, lines 48-86, by the types of its
\* arguments ("None", "str", "bytes"): the attributes of the request, or the
\* AttributeError of `.encode` on bytes
AttributeError == {"AttributeError"}
create_allocation_request_bare(username, realm, nonce, password) ==
    {"REQUESTED-TRANSPORT"}
create_allocation_request(username, realm, nonce, password) ==
    IF username # "None" /\ realm # "None" /\ nonce # "None"
    THEN IF "bytes" \in {username, realm, nonce}
         THEN AttributeError
         ELSE {"REQUESTED-TRANSPORT", "USERNAME", "REALM", "NONCE"}
                \cup (IF password # "None" THEN {"MESSAGE-INTEGRITY"} ELSE {})
    ELSE {"REQUESTED-TRANSPORT"}

\* connect() of client c raises: lines 337-341, the socket is closed
TARaise(c) ==
    /\ ta_pc' = [ta_pc EXCEPT ![c] = "raised"]
    /\ UNCHANGED ta_relayed

\* the request is handed to _send
TASend(c, request) == ta_sent' = [ta_sent EXCEPT ![c] = Append(@, request)]

\* connect(), lines 254-287: the socket is made; with credentials the
\* request without authentication is sent and its response awaited, without
\* them (or when the send raises) connect raises
TAConnect(c, sendok) ==
    /\ ta_pc[c] = "idle"
    /\ IF ta_creds[c] /\ sendok
       THEN /\ TASend(c, create_allocation_request("None", "None", "None", "None"))
            /\ ta_pc' = [ta_pc EXCEPT ![c] = "recv1"]
            /\ UNCHANGED ta_relayed
       ELSE TARaise(c) /\ UNCHANGED ta_sent
    /\ UNCHANGED <<ta_creds, ta_answers, ta_realm, ta_allocate>>

\* connect(), lines 289-313: the first answer; an error response with realm
\* and nonce stores them and the request with authentication is sent
TAFirstAnswer(c, a, sendok) ==
    /\ ta_pc[c] = "recv1"
    /\ ta_answers' = [ta_answers EXCEPT ![c] = Append(@, a)]
    /\ IF a = "error_realm_nonce"
       THEN /\ ta_realm' = [ta_realm EXCEPT ![c] = "bytes"]
            /\ IF sendok
               THEN /\ TASend(c, create_allocation_request("str", "str", "str", "str"))
                    /\ ta_pc' = [ta_pc EXCEPT ![c] = "recv2"]
                    /\ UNCHANGED ta_relayed
               ELSE TARaise(c) /\ UNCHANGED ta_sent
       ELSE /\ TARaise(c)
            /\ UNCHANGED <<ta_sent, ta_realm>>
    /\ UNCHANGED <<ta_creds, ta_allocate>>

\* connect(), lines 315-334: the second answer; a success response whose
\* relayed address parses sets relayed_addr and connect returns
TASecondAnswer(c, a) ==
    /\ ta_pc[c] = "recv2"
    /\ ta_answers' = [ta_answers EXCEPT ![c] = Append(@, a)]
    /\ IF a = "success_relayed"
       THEN /\ ta_relayed' = [ta_relayed EXCEPT ![c] = "relay"]
            /\ ta_pc' = [ta_pc EXCEPT ![c] = "returned"]
       ELSE TARaise(c)
    /\ UNCHANGED <<ta_creds, ta_sent, ta_realm, ta_allocate>>

\* allocate(), lines 344-395, outside connect(): None without realm and
\* nonce; with them the request is built from self.realm and self.nonce as
\* they are stored, and the exception of create_allocation_request gives
\* None; a request that could be built is sent and its answer awaited
TAAllocate(c) ==
    /\ ta_pc[c] \in {"idle", "returned", "raised"}
    /\ ta_allocate[c] = "not_called"
    /\ IF ta_realm[c] = "None"
       THEN /\ ta_allocate' = [ta_allocate EXCEPT ![c] = "None"]
            /\ UNCHANGED ta_sent
       ELSE LET request == create_allocation_request("str", ta_realm[c],
                                                     ta_realm[c], "bytes")
            IN  IF request = AttributeError
                THEN /\ ta_allocate' = [ta_allocate EXCEPT ![c] = "None"]
                     /\ UNCHANGED ta_sent
                ELSE /\ TASend(c, request)
                     /\ ta_allocate' = [ta_allocate EXCEPT ![c] = "recv"]
    /\ UNCHANGED <<ta_creds, ta_pc, ta_answers, ta_realm, ta_relayed>>

TANext ==
    \/ \E c \in TurnClients, sendok \in BOOLEAN :
            TAConnect(c, sendok) /\ UNCHANGED notTAVars
    \/ \E c \in TurnClients, a \in AllocAnswers, sendok \in BOOLEAN :
            TAFirstAnswer(c, a, sendok) /\ UNCHANGED notTAVars
    \/ \E c \in TurnClients, a \in AllocAnswers :
            TASecondAnswer(c, a) /\ UNCHANGED notTAVars
    \/ \E c \in TurnClients : TAAllocate(c) /\ UNCHANGED notTAVars

(* --------------------- NodeDiscovery.start and stop --------------------- *)

\* __init__, lines 18-27, on a loop with no task yet
DSInit ==
    /\ ds_task = [t \in OwnTasks \cup OtherTasks |-> "none"]
    /\ ds_sock = "none"
    /\ ds_running = FALSE
    /\ ds_pc = "idle"

\* task.cancel() of a task
Cancelled(st) == IF st = "running" THEN "cancelled" ELSE st

\* stop(), lines 61-64: the tasks of asyncio.all_tasks() other than the
\* current one
StopTargets == OwnTasks \cup OtherTasks

\* start(), lines 29-46: the socket is bound and the two tasks created
DSStart ==
    /\ ds_sock = "none"
    /\ ds_pc = "idle"
    /\ ds_sock' = "open"
    /\ ds_running' = TRUE
    /\ ds_task' = [t \in DOMAIN ds_task |->
                        IF t \in OwnTasks THEN "running" ELSE ds_task[t]]
    /\ UNCHANGED ds_pc

\* another component creates its task on the loop
DSOtherStarts(t) ==
    /\ ds_task[t] = "none"
    /\ ds_task' = [ds_task EXCEPT ![t] = "running"]
    /\ UNCHANGED <<ds_sock, ds_running, ds_pc>>

\* a task of another component ends by itself
DSOtherEnds(t) ==
    /\ ds_task[t] = "running"
    /\ ds_task' = [ds_task EXCEPT ![t] = "done"]
    /\ UNCHANGED <<ds_sock, ds_running, ds_pc>>

\* stop(), lines 54-67, called from a task that is none of those above:
\* is_running is cleared and every task of the loop but the current one is
\* cancelled and gathered
DSStop ==
    /\ ds_pc = "idle"
    /\ ds_sock = "open"
    /\ ds_running' = FALSE
    /\ ds_task' = [t \in DOMAIN ds_task |->
                        IF t \in StopTargets THEN Cancelled(ds_task[t])
                        ELSE ds_task[t]]
    /\ ds_pc' = "gather"
    /\ UNCHANGED ds_sock

\* stop(), lines 66-73: gather returns and the socket is closed
DSStopReturns ==
    /\ ds_pc = "gather"
    /\ ds_sock' = "closed"
    /\ ds_pc' = "returned"
    /\ UNCHANGED <<ds_task, ds_running>>

DSNext ==
    \/ DSStart /\ UNCHANGED notDSVars
    \/ \E t \in OtherTasks : DSOtherStarts(t) /\ UNCHANGED notDSVars
    \/ \E t \in OtherTasks : DSOtherEnds(t) /\ UNCHANGED notDSVars
    \/ DSStop /\ UNCHANGED notDSVars
    \/ DSStopReturns /\ UNCHANGED notDSVars

(* ------------------------ StunClient.get_binding ------------------------ *)

\* a connected StunClient
GBInit ==
    /\ gb_pc = "idle"
    /\ gb_request = "none"
    /\ gb_response = NoDatagram
    /\ gb_result = "none"

\* get_binding, lines 169-181: the response is taken when it unpacks (the
\* magic cookie is right), it is a Binding Response and a mapped address
\* parses from it
Accepted(request, d) ==
    /\ d.cookie_ok
    /\ d.message_type = "BINDING_RESPONSE"
    /\ d.mapped = "address"

\* get_binding, lines 158-164: a request with a random transaction id is
\* sent, or the send raises and None is returned (lines 190-192)
GBRequest(t, sendok) ==
    /\ gb_pc = "idle"
    /\ gb_request' = t
    /\ gb_response' = NoDatagram
    /\ IF sendok
       THEN gb_pc' = "receive" /\ gb_result' = "none"
       ELSE gb_pc' = "returned" /\ gb_result' = "None"

\* get_binding, lines 166-188: _receive returns the next datagram on the
\* socket
GBReceive(d) ==
    /\ gb_pc = "receive"
    /\ gb_response' = d
    /\ gb_pc' = "returned"
    /\ gb_result' = IF Accepted(gb_request, d) THEN "binding" ELSE "None"
    /\ UNCHANGED gb_request

\* _receive times out and get_binding returns None (lines 166-168)
GBTimeout ==
    /\ gb_pc = "receive"
    /\ gb_pc' = "returned"
    /\ gb_result' = "None"
    /\ UNCHANGED <<gb_request, gb_response>>

GBNext ==
    \/ \E t \in TransactionIds, sendok \in BOOLEAN :
            GBRequest(t, sendok) /\ UNCHANGED notGBVars
    \/ \E d \in StunDatagrams : GBReceive(d) /\ UNCHANGED notGBVars
    \/ GBTimeout /\ UNCHANGED notGBVars

\* the parts added last, before any of them is used
Ext2Idle == NTInit /\ PPIdle /\ ESIdle /\ SBIdle /\ TAIdle /\ DSInit /\ GBInit

(* ---------------------------- specifications ---------------------------- *)

vars == <<relayVars, cmVars, msgVars, nmVars, frVars, extVars>>

\* the relay with the key of a deployment
\* the components a specification does not run are in their initial state
RestInit ==
    /\ MsgInit /\ NMInit /\ FrIdle /\ CTIdle /\ StunIdle /\ TurnInit /\ DiscIdle
    /\ Ext2Idle

Init == RelayInit /\ secret_key = "k1" /\ CMInit /\ RestInit
Next == RelayNext
Spec == Init /\ [][Next]_vars

\* the relay with any key, the clock and the sweep
SweepInit == RelayInit /\ CMInit /\ RestInit
SweepSpec == SweepInit /\ [][SweepNext]_vars

\* the Connection Manager of one node
CMSpecInit == RelayInit /\ secret_key = "k1" /\ CMInit /\ RestInit
CMSpec == CMSpecInit /\ [][CMNext]_vars

\* the Connection Manager of one node, the frames of its sockets and the
\* handlers of the managers it connects to
MsgSpec == CMSpecInit /\ [][MsgNext]_vars

\* the Connection Manager sending to one peer over connections that hold
OrderSpec == CMSpecInit /\ [][OrderNext]_vars

\* the NetworkManager and the peers that connect to it
NMSpec == CMSpecInit /\ [][NMNext]_vars

\* the event loop runs the tasks of the manager that are ready, and time
\* passes however often peers connect and leave; nothing obliges a peer to
\* send or a connection to close
NMFairness ==
    /\ SF_vars(NMTick /\ UNCHANGED notNMVars)
    /\ \A p \in NMPeers : WF_vars(heartbeat_check(p) /\ UNCHANGED notNMVars)
    /\ \A p \in NMPeers : WF_vars(NMHandlerEnds(p) /\ UNCHANGED notNMVars)

\* the same with the manager's tasks scheduled and time passing
NMFairSpec == NMSpec /\ NMFairness

\* one connection of the Connection Manager, sender to receiver, as bytes
\* The relay's own tasks run when they can: asyncio resumes the task of a
\* connection whose recv raised ConnectionClosed, and resumes a teardown
\* whose awaited send has completed.
RelayFairness ==
    \A c \in SweepConns :
        /\ WF_vars(ConnectionClosed(c) /\ UNCHANGED notRelayVars)
        /\ WF_vars(TeardownStep(c) /\ UNCHANGED notRelayVars)
SweepFairSpec == SweepSpec /\ RelayFairness

\* connect_to_peer address by address
CTSpecInit ==
    /\ RelayInit /\ secret_key = "k1" /\ CMInit /\ MsgInit /\ NMInit /\ FrIdle
    /\ CTInit /\ StunIdle /\ TurnInit /\ DiscIdle /\ Ext2Idle
CTSpec == CTSpecInit /\ [][CTNext]_vars

\* a Binding response parsed, for a sample of addresses and ports
StunSpecInit ==
    /\ RelayInit /\ secret_key = "k1" /\ CMInit /\ MsgInit /\ NMInit /\ FrIdle
    /\ CTIdle /\ StunInit /\ TurnInit /\ DiscIdle /\ Ext2Idle
StunSpec == StunSpecInit /\ [][StunNext]_vars

\* the TURN client under concurrent calls of its operations
TurnSpec == CMSpecInit /\ [][TurnNext]_vars

\* one node of the discovery service on a network with two other nodes
DiscSpecInit ==
    /\ RelayInit /\ secret_key = "k1" /\ CMInit /\ MsgInit /\ NMInit /\ FrIdle
    /\ CTIdle /\ StunIdle /\ TurnInit /\ DiscInit /\ Ext2Idle
DiscSpec == DiscSpecInit /\ [][DiscNext]_vars

\* the NetworkManager's tables under connections, disconnections and stop()
NTSpec == CMSpecInit /\ [][NTNext]_vars

\* NetworkManager.start() without a port on hosts with different free ports
PPSpecInit ==
    /\ RelayInit /\ secret_key = "k1" /\ CMInit
    /\ MsgInit /\ NMInit /\ FrIdle /\ CTIdle /\ StunIdle /\ TurnInit /\ DiscIdle
    /\ NTInit /\ PPInit /\ ESIdle /\ SBIdle /\ TAIdle /\ DSInit /\ GBInit
PPSpec == PPSpecInit /\ [][PPNext]_vars

\* one send_message without a live connection, on hosts with different
\* listeners
ESSpecInit ==
    /\ RelayInit /\ secret_key = "k1" /\ CMInit
    /\ MsgInit /\ NMInit /\ FrIdle /\ CTIdle /\ StunIdle /\ TurnInit /\ DiscIdle
    /\ NTInit /\ PPIdle /\ ESInit /\ SBIdle /\ TAIdle /\ DSInit /\ GBInit
ESSpec == ESSpecInit /\ [][ESNext]_vars
\* every task of the loop that can run does run
ESFairness ==
    /\ WF_vars(ESSend /\ UNCHANGED notESVars)
    /\ WF_vars(ESConnect /\ UNCHANGED notESVars)
    /\ \A p \in EstPorts : WF_vars(ESListenerReads(p) /\ UNCHANGED notESVars)
    /\ WF_vars(ESReply /\ UNCHANGED notESVars)
    /\ WF_vars(ESTimeout /\ UNCHANGED notESVars)
    /\ WF_vars(ESDrain /\ UNCHANGED notESVars)
ESFairSpec == ESSpec /\ ESFairness

\* one collection of STUN bindings, with every outcome for every server
SBSpecInit ==
    /\ RelayInit /\ secret_key = "k1" /\ CMInit
    /\ MsgInit /\ NMInit /\ FrIdle /\ CTIdle /\ StunIdle /\ TurnInit /\ DiscIdle
    /\ NTInit /\ PPIdle /\ ESIdle /\ SBInit /\ TAIdle /\ DSInit /\ GBInit
SBSpec == SBSpecInit /\ [][SBNext]_vars

\* one TurnClient: connect(), then allocate(), with every answer of the server
TASpecInit ==
    /\ RelayInit /\ secret_key = "k1" /\ CMInit
    /\ MsgInit /\ NMInit /\ FrIdle /\ CTIdle /\ StunIdle /\ TurnInit /\ DiscIdle
    /\ NTInit /\ PPIdle /\ ESIdle /\ SBIdle /\ TAInit /\ DSInit /\ GBInit
TASpec == TASpecInit /\ [][TANext]_vars

\* a NodeDiscovery started and stopped on a loop other components use
DSSpec == CMSpecInit /\ [][DSNext]_vars

\* one get_binding with every datagram that may answer it
GBSpec == CMSpecInit /\ [][GBNext]_vars

\* the relay with clients that place a peer_id of their choice in every frame
SpoofSpec == Init /\ [][SpoofNext]_vars

FrameInit ==
    /\ RelayInit /\ secret_key = "k1" /\ CMInit /\ MsgInit /\ NMInit
    /\ FrInit /\ CTIdle /\ StunIdle /\ TurnInit /\ DiscIdle /\ Ext2Idle
FrameSpec == FrameInit /\ [][FrameNext]_vars

(* =============================== CLAIMS =============================== *)

\* every connection whose task runs the message loop or the teardown
Live(c) == pc[c] \in {"recv", "notify", "td"}
\* the sessions of ids A and B are marked connected to each other
MarkedConnected(A, B) ==
    /\ peers[A] # None /\ peers[B] # None
    /\ B \in cp[peers[A]] /\ A \in cp[peers[B]]

(* ---- C1 ---- *)
\* C1: in every reachable state of the relay, for any two registered
\* sessions A and B neither of which is in the middle of its teardown, B is
\* in A's connected_peers iff A is in B's.
C1_Symmetry ==
    \A c, d \in Conns :
        (/\ Registered(c) /\ Registered(d)
         /\ pc[c] # "td" /\ pc[d] # "td") =>
            (pid[d] \in cp[c] <=> pid[c] \in cp[d])

(* ---- C3 ---- *)
\* HMAC-SHA256(secretKey, "peer_id:timestamp") of an auth frame
ExpectedToken(f) ==
    Hmac(secret_key, f.peer_id \o ":" \o ToString(f.timestamp))
BadAuth(f) == ~WellFormed(f) \/ f.token # ExpectedToken(f)

\* C3: with a configured (non-empty) secret key, a connection whose first
\* frame lacks peer_id, timestamp or token, or carries a token different from
\* HMAC-SHA256(secretKey, "peer_id:timestamp"), is closed and the session
\* table is left as it was; from then on its task only ends: it is never
\* entered in the session table and never reaches the message loop, so none
\* of its later frames is processed.
C3_AuthRejection ==
    [][ \A c \in Conns :
        /\ (secret_key # "" /\ pc[c] = "idle" /\ pc'[c] # "idle") =>
            \A f \in AuthFrames :
                (BadAuth(f) /\ HandleConnection(c, f)) =>
                    /\ pc'[c] \in {"closing_format", "closing_auth"}
                    /\ ws'[c] = "closed"
                    /\ peers' = peers /\ cp' = cp /\ sent' = <<>>
        /\ pc[c] \in Closing =>
                /\ pc'[c] \in Closing \cup {"done"}
                /\ \A i \in PeerIds : peers'[i] # c
                /\ pid'[c] = Absent
      ]_vars

\* a connection has been refused for its token under a configured key while
\* another session is registered
C3_Witness ==
    /\ secret_key # ""
    /\ \E c, d \in Conns : pc[c] = "closing_auth" /\ Registered(d)

(* ---- C4 ---- *)
\* C4: when the relay handles data{target_id: B, data} from session A, it
\* sends exactly one frame, data{peer_id: A, data} with the same payload, on
\* B's websocket if A and B are marked connected to each other; otherwise it
\* sends nothing to anyone.
C4_DataForwarding ==
    [][ \A c \in Conns, f \in ClientFrames :
            (/\ f.type = "data" /\ f.target_id \in PeerIds /\ f.data \in Payloads
             /\ HandleMessage(c, f)) =>
                IF MarkedConnected(pid[c], f.target_id)
                THEN sent' = <<[to |-> peers[f.target_id],
                               frame |-> DataFrame(pid[c], f.data),
                               ok |-> ws[peers[f.target_id]] = "open"]>>
                ELSE sent' = <<>>
      ]_vars

(* ---- C9 ---- *)
\* C9: when two distinct sessions A and B are marked connected to each other
\* and A sends disconnect{target_id: B}, then afterwards neither session's
\* connected_peers contains the other, exactly one frame is sent, a
\* peer_disconnected{peer_id: A} on B's websocket, and nothing else changes:
\* the session table and every other membership of every connected_peers.
C9_Disconnect ==
    [][ \A c \in Conns, f \in ClientFrames :
            (/\ f.type = "disconnect" /\ f.target_id \in PeerIds
             /\ Registered(c)
             /\ MarkedConnected(pid[c], f.target_id)
             /\ peers[f.target_id] # c
             /\ HandleMessage(c, f)) =>
                LET B == f.target_id
                    b == peers[B]
                IN  /\ cp'[c] = cp[c] \ {B}
                    /\ cp'[b] = cp[b] \ {pid[c]}
                    /\ \A d \in Conns \ {c, b} : cp'[d] = cp[d]
                    /\ peers' = peers
                    /\ sent' = <<[to |-> b, frame |-> PeerDisconnected(pid[c]),
                                 ok |-> ws[b] = "open"]>>
      ]_vars

\* a disconnect has just been carried out (its notification is the last
\* frame sent) while each of the two sessions is still connected to a third
C9_Witness ==
    /\ Len(sent) = 1
    /\ sent[1].frame.type = "peer_disconnected"
    /\ \E c, b, d \in Conns :
        /\ Registered(c) /\ Registered(b) /\ Registered(d)
        /\ c # b /\ c # d /\ b # d
        /\ pc[c] = "recv" /\ ws[c] = "open"
        /\ sent[1].to = b /\ sent[1].frame.peer_id = pid[c]
        /\ pid[b] \notin cp[c] /\ pid[c] \notin cp[b]
        /\ pid[d] \in cp[c] /\ pid[d] \in cp[b]

(* ---- C5 ---- *)
\* C5 (as a property of finite runs): when the task of a session that has
\* received no traffic for more than 30 s ends, the session is no longer in
\* the session table and no registered session's connected_peers contains
\* its id.
C5_TimeoutTeardown ==
    [][ \A c \in Conns :
            (/\ Registered(c) /\ expired[c]
             /\ pc[c] \in {"recv", "td"} /\ pc'[c] = "done") =>
                /\ peers'[pid[c]] # c
                /\ \A d \in Conns \ {c} :
                        (pid'[d] \in PeerIds /\ peers'[pid'[d]] = d) =>
                            pid[c] \notin cp'[d]
      ]_vars

(* ---- C8 ---- *)
\* C8: when registered session A sends connect{target_id: B} and B is
\* registered, then A's connected_peers contains B and B's contains A, A is
\* sent connect_response{target_id: B, success: true}, and the handler goes on
\* to send peer_connected{peer_id: A} on B's websocket.
C8_Connect ==
    [][ \A c \in Conns :
        /\ \A f \in ClientFrames :
            (/\ f.type = "connect" /\ f.target_id \in PeerIds
             /\ Registered(c) /\ peers[f.target_id] # None
             /\ HandleMessage(c, f)) =>
                LET b == peers[f.target_id]
                IN  /\ f.target_id \in cp'[c]
                    /\ pid[c] \in cp'[b]
                    /\ sent' = <<[to |-> c,
                                 frame |-> ConnectResponse(f.target_id, TRUE),
                                 ok |-> ws[c] = "open"]>>
                    /\ pc'[c] = "notify" /\ tgt'[c] = b
        /\ (pc[c] = "notify" /\ pc'[c] # "notify") =>
                sent' = <<[to |-> tgt[c], frame |-> PeerConnected(pid[c]),
                          ok |-> ws[tgt[c]] = "open"]>>
      ]_vars

(* ---- C10 ---- *)
\* the registered sessions and everything they hold are left as they are by
\* a step of connection c
SessionsUnchanged(c) ==
    /\ peers' = peers /\ pid' = pid /\ cp' = cp /\ expired' = expired
    /\ \A d \in Conns \ {c} : ws'[d] = ws[d] /\ pc'[d] = pc[d]

\* C10: every connection that has been admitted (its task runs the message
\* loop or the teardown) is the one session registered under its id, so no id
\* has two sessions; a connection whose valid auth frame names an id that is
\* registered is closed without being registered, and neither that step nor
\* the later return of its close() changes the session table or the existing
\* session's websocket, connected_peers or last_heartbeat.
C10_OneSessionPerId ==
    /\ [](\A c \in Conns : Live(c) => Registered(c))
    /\ [][ \A c \in Conns :
           /\ (pc[c] = "idle" /\ pc'[c] # "idle") =>
                \A f \in AuthFrames :
                    (/\ WellFormed(f)
                     /\ secret_key # "" => f.token = ExpectedToken(f)
                     /\ peers[f.peer_id] # None
                     /\ HandleConnection(c, f)) =>
                        /\ pc'[c] = "closing_dup"
                        /\ ws'[c] = "closed"
                        /\ SessionsUnchanged(c)
           /\ (pc[c] = "closing_dup" /\ pc'[c] # "closing_dup") =>
                /\ pc'[c] = "done"
                /\ ws' = ws
                /\ SessionsUnchanged(c)
         ]_vars

\* a connection has been refused for its id while the session registered
\* under that id is connected to another session and past its heartbeat time
C10_Witness ==
    \E c, d \in Conns :
        /\ pc[c] = "closing_dup"
        /\ Registered(d) /\ Live(d) /\ cp[d] # {} /\ expired[d]

(* ---- C2 ---- *)
\* C2: every socket that is open for a peer id (opened by a successful
\* connect_to_peer for it, or authenticated under it) is the one stored in the
\* Peer Connection Table under that id: the id has one entry, one open socket,
\* and the sockets replaced were closed.
C2_AtMostOneConnection ==
    \A s \in Socks :
        (sock[s] = "open" /\ owner[s] # Absent) => cm_peers[owner[s]] = s

(* ---- C6 ---- *)
\* C6: a reconnection loop that is sleeping or connecting has failed fewer
\* than max_reconnect_attempts (3) times and is the task recorded for its peer;
\* no loop ever counts more than max_reconnect_attempts attempts; the step in
\* which the last attempt fails ends the loop, removes the peer's reconnection
\* task, opens no socket and adds no table entry, so a peer without an entry
\* is left without one and without a task.
C6_ReconnectBound ==
    /\ [](\A i \in CMIds :
            /\ loop[i].attempts <= max_reconnect_attempts
            /\ loop[i].stage \in {"sleep", "connect"} =>
                    /\ loop[i].attempts < max_reconnect_attempts
                    /\ i \in reconnect_tasks
            /\ loop[i].stage \in {"none", "ended"} => i \notin reconnect_tasks)
    /\ [][ \A i \in CMIds :
            ReconnectFail(i) =>
                /\ loop'[i].attempts = loop[i].attempts + 1
                /\ cm_peers' = cm_peers /\ sock' = sock
                /\ loop[i].attempts = max_reconnect_attempts - 1 =>
                        /\ loop'[i].stage = "ended"
                        /\ i \notin reconnect_tasks'
         ]_vars

\* a loop has ended after max_reconnect_attempts failed attempts and its peer
\* has no table entry and no reconnection task
C6_Witness ==
    \E i \in CMIds :
        /\ loop[i].stage = "ended"
        /\ loop[i].attempts = max_reconnect_attempts
        /\ cm_peers[i] = NoSock
        /\ i \notin reconnect_tasks

(* ---- C7 ---- *)
\* C7: once stop() has returned, no socket of a peer (one opened by
\* connect_to_peer or authenticated by its first message) and no listener is
\* open, and no reconnection task is recorded or running.
C7_ShutdownComplete ==
    stopPc = "returned" =>
        /\ \A s \in Socks : owner[s] # Absent => sock[s] # "open"
        /\ listener # "open"
        /\ reconnect_tasks = {}
        /\ \A i \in CMIds : loop[i].stage \notin {"sleep", "connect"}

(* ---- C11 ---- *)
\* C11: when the relay handles connect{target_id: B} from session A and no
\* session is registered under B, the only frame sent is
\* connect_response{target_id: B, success: false, error} on A's websocket,
\* the handler ends there (no peer_connected follows), and no
\* connected_peers changes.
C11_ConnectAbsentTarget ==
    [][ \A c \in Conns :
        (pc[c] = "recv") =>
            \A f \in ClientFrames :
                (/\ f.type = "connect" /\ f.target_id \in PeerIds
                 /\ peers[f.target_id] = None
                 /\ HandleMessage(c, f)) =>
                    /\ sent' = <<[to |-> c,
                                 frame |-> [type |-> "connect_response",
                                            peer_id |-> Absent,
                                            target_id |-> f.target_id,
                                            data |-> Absent,
                                            success |-> FALSE,
                                            error |-> NoSuchTarget],
                                 ok |-> ws[c] = "open"]>>
                    /\ cp' = cp
                    /\ pc'[c] = "recv" /\ tgt' = tgt
      ]_vars

\* a refusal has just been delivered to a requester that is connected to
\* another session
C11_Witness ==
    /\ Len(sent) = 1
    /\ sent[1].frame.type = "connect_response"
    /\ sent[1].frame.error = NoSuchTarget
    /\ sent[1].ok
    /\ \E d \in Conns :
        /\ d # sent[1].to
        /\ Registered(d) /\ Registered(sent[1].to)
        /\ pid[d] \in cp[sent[1].to] /\ pid[sent[1].to] \in cp[d]

(* ---- C15 ---- *)
\* C15: in the step in which stop() returns, every socket stored in the Peer
\* Connection Table is closed, the listener is closed, and no reconnection
\* task is recorded or running, whatever the wait for a socket's close did
\* (returned, timed out or raised).
C15_ShutdownRobust ==
    [][ (stopPc # "returned" /\ stopPc' = "returned") =>
            /\ \A i \in CMIds :
                    cm_peers'[i] # NoSock => sock'[cm_peers'[i]] = "closed"
            /\ listener' # "open"
            /\ reconnect_tasks' = {}
            /\ \A i \in CMIds : loop'[i].stage \notin {"sleep", "connect"}
      ]_vars

(* ---- C12 ---- *)
\* C12: an accepted connection is in the Peer Connection Table only if the
\* first frame it sent was an authentication message bearing a peer id, and
\* the message handler is called for a frame of an accepted connection only
\* when that connection has been admitted.
C12_AcceptAuthentication ==
    /\ [](\A s \in Socks :
            (kind[s] = "inbound" /\ owner[s] # Absent) => firstFrame[s] = "auth")
    /\ [][ \A s \in Socks :
            (kind[s] = "inbound" /\ Len(handled') > Len(handled)
                /\ handled'[Len(handled')].sock = s) => owner[s] # Absent
         ]_vars

(* ---- C13 ---- *)
\* the step in which the send_message call k returns
Returns(k) ==
    /\ snd'[k].stage = "idle"
    /\ \/ snd[k].stage # "idle"
       \/ /\ nsend' > nsend
          /\ \A j \in Senders : j < k <=> snd[j].stage # "idle"

\* C13: every send_message call returns True or False and never raises,
\* whatever fails (lookup, on-demand connection, serialisation, write); it
\* returns True only after the drain of a write, and every write appends the
\* whole frame to a socket that is not closing.
C13_SendNeverRaises ==
    [][ \A k \in Senders :
            /\ Returns(k) =>
                /\ snd'[k].result \in {"True", "False"}
                /\ snd'[k].result = "True" => snd[k].stage = "drain"
            /\ (snd[k].stage # "drain" /\ snd'[k].stage = "drain") =>
                /\ sock'[snd'[k].sock] = "open"
                /\ stream'[snd'[k].sock] =
                        Append(stream[snd'[k].sock], snd'[k].message)
      ]_vars

\* one call returned True and another False, with an entry made on demand
C13_Witness ==
    /\ snd[1].result = "True"
    /\ snd[2].result = "False"
    /\ \E s \in Socks : kind[s] = "established"

(* ---- C14 ---- *)
\* C14: when the drain of a write fails, then as send_message returns the
\* peer has no entry in the table, a reconnection task for it is recorded and
\* the result is False, however the entry was made.
C14_SendFailureTeardown ==
    [][ \A k \in Senders :
            (snd[k].stage = "drain" /\ snd'[k].stage = "idle"
                /\ snd'[k].result # "True") =>
                    /\ snd'[k].result = "False"
                    /\ cm_peers'[snd[k].peer_id] = NoSock
                    /\ snd[k].peer_id \in reconnect_tasks'
      ]_vars

(* ---- C18 ---- *)
\* C18: a send_message call with an application message for a peer whose
\* manager has connected to this manager's listener, and is still connected
\* when the call returns, returns True.
C18_EndToEndDelivery ==
    [][ \A k \in Senders :
            (/\ snd[k].stage # "idle" /\ snd'[k].stage = "idle"
             /\ snd[k].message.type = "message"
             /\ snd[k].message # Unserialisable
             /\ \E s \in Socks :
                    /\ kind[s] = "inbound" /\ remote[s] = snd[k].peer_id
                    /\ sock'[s] = "open" /\ hpc'[s] = "read") =>
                snd'[k].result = "True"
      ]_vars

(* ---- C17 ---- *)
\* C17: of two application messages sent to the same peer by calls that both
\* returned True, the one whose write was issued first is handed to the
\* receiving manager's message handler first (the application issues m1
\* before m2).
C17_PerPeerOrdering ==
    \A i, j \in 1..Len(handled) :
        (/\ i < j
         /\ outcome[AppContents[1]] = "True"
         /\ outcome[AppContents[2]] = "True"
         /\ PeerIsManager(handled[i].sock) /\ PeerIsManager(handled[j].sock)
         /\ owner[handled[i].sock] = owner[handled[j].sock]) =>
            ~(/\ handled[i].message = AppMsg(AppContents[2])
              /\ handled[j].message = AppMsg(AppContents[1]))

(* ---- C16 ---- *)
\* C16: a connected peer from which no frame has been received for more than
\* twice the heartbeat interval is eventually removed from the table of
\* connected peers.
C16_DeadConnectionDetection ==
    \A p \in NMPeers :
        (p \in connected_peers /\ silent[p] > 2 * HeartbeatInterval)
            ~> (p \notin connected_peers)

(* ---- C19 ---- *)
IsPrefix(a, b) == Len(a) <= Len(b) /\ a = SubSeq(b, 1, Len(a))

\* the messages written so far
FrSent == SubSeq(fr_out, 1, Len(fr_res))

\* C19: decoding the frame of a message that fits yields the message,
\* whatever characters its value holds; and while every message written to a
\* stream fits, the receiver's handler is handed the messages written, in
\* order, each once: all of them when every byte has arrived and been read.
C19_FramingRoundTrip ==
    /\ \A v \in Values : Fits(v) => DecodeFrame(EncodeFrame(v)) = v
    /\ (\A n \in 1..Len(FrSent) : Fits(FrSent[n])) =>
            /\ fr_pc = "read"
            /\ IsPrefix(fr_in, FrSent)
            /\ (fr_wire = <<>> /\ fr_buf = <<>>) => fr_in = FrSent

\* a newline and then a backslash followed by the letter n went through
C19_Witness ==
    /\ fr_out = << <<"NL">>, <<"B", "n">> >>
    /\ fr_in = fr_out

(* ---- C20 ---- *)
\* the messages before the first one that does not fit
RECURSIVE FitPrefix(_)
FitPrefix(out) ==
    IF out = <<>> \/ ~Fits(Head(out)) THEN <<>>
    ELSE <<Head(out)>> \o FitPrefix(Tail(out))

\* the receiver side of C20
C20_DecodeSide ==
    /\ IsPrefix(fr_in, FitPrefix(fr_out))
    /\ fr_pc = "closed" => LimitOverrun(fr_buf)

\* C20: a message whose frame is larger than the limit is refused by the
\* sender (send_message does not return True for it), and the receiver hands
\* its handler neither that message, nor a part of it, nor anything that
\* follows it on the stream, and ends the connection on it.
C20_OversizeRejection ==
    /\ \A n \in 1..Len(fr_res) : ~Fits(fr_out[n]) => fr_res[n] # "True"
    /\ C20_DecodeSide


(* ---- C27 ---- *)
\* C27: in every reachable state of the relay, each id in the connected_peers
\* of a registered session whose task is serving it is the id of a session
\* in the session table.
C27_NoDanglingReferences ==
    \A c \in Conns :
        (Registered(c) /\ pc[c] = "recv") =>
            \A i \in cp[c] : i \in PeerIds /\ peers[i] # None


(* ---- C26 ---- *)
\* C26: whenever the websocket of a registered session is closed, the
\* session is eventually removed from the session table, whatever its
\* connected_peers holds.
C26_TeardownCompletes ==
    \A c \in SweepConns, i \in PeerIds :
        (pid[c] = i /\ peers[i] = c /\ ws[c] = "closed") ~> (peers[i] # c)


(* ---- C25 ---- *)
\* C25: every step that destroys an entry of the Peer Connection Table whose
\* socket is open (the entry is removed, or another socket is stored under
\* its id) closes that socket, so that no open socket is left that the table
\* no longer references.
C25_SocketOwnership ==
    [][ \A i \in CMIds :
            (/\ cm_peers[i] # NoSock
             /\ sock[cm_peers[i]] = "open"
             /\ cm_peers'[i] # cm_peers[i]) =>
                sock'[cm_peers[i]] = "closed"
      ]_vars


(* ---- C28 ---- *)
\* C28: when the handler of an inbound connection authenticated as a peer id
\* ends while the table holds another, newer socket under that id, the step
\* leaves that entry in place and starts no reconnection task.
C28_StaleHandlerTeardown ==
    [][ \A s \in Socks :
            (/\ hpc[s] = "read" /\ hpc'[s] = "done"
             /\ owner[s] # Absent
             /\ cm_peers[owner[s]] \notin {NoSock, s}) =>
                /\ cm_peers'[owner[s]] = cm_peers[owner[s]]
                /\ reconnect_tasks' = reconnect_tasks
                /\ loop' = loop
      ]_vars


(* ---- C30 ---- *)
\* a reconnection loop of peer i is running
LoopLive(i) == loop[i].stage \in {"sleep", "connect"}

\* C30: a peer has at most one reconnection task: a task is created only
\* when no loop of the peer is running, no step starts a running loop afresh
\* (a failure while the loop runs, its own attempts included, changes
\* nothing of it), the step that ends a loop removes the task of its peer,
\* and a connect_to_peer that fails when no loop is running starts one.
C30_SingleReconnectTask ==
    [][ \A i \in CMIds :
            /\ (i \notin reconnect_tasks /\ i \in reconnect_tasks') => ~LoopLive(i)
            /\ (LoopLive(i) /\ loop'[i].stage = "sleep" /\ loop'[i].attempts = 0) =>
                    loop'[i] = loop[i]
            /\ (LoopLive(i) /\ loop'[i].stage = "ended") => i \notin reconnect_tasks'
            /\ \A k \in Callers :
                    (call[k] = i /\ ConnectFail(k) /\ ~LoopLive(i)) =>
                        /\ i \in reconnect_tasks'
                        /\ loop'[i] = [stage |-> "sleep", attempts |-> 0, pos |-> 0]
      ]_vars

\* the loop started when a peer's inbound connection was lost has failed an
\* attempt of its own and runs on as the task recorded for the peer, with a
\* connect_to_peer for the peer in flight
C30_Witness ==
    \E i \in CMIds, k \in Callers :
        /\ LoopLive(i) /\ loop[i].attempts >= 1
        /\ i \in reconnect_tasks
        /\ call[k] = i
        /\ \E s \in Socks : sock[s] = "closed" /\ kind[s] = "inbound"


(* ---- C29 ---- *)
\* C29: a connect_to_peer call awaits a connection to peer_addr first and
\* then to the cached STUN-mapped addresses in the order of the cache, each
\* only after every earlier one failed; it returns True at the first
\* success; it returns False only after every address failed, and the step
\* in which it returns False records a reconnection task for the peer
\* without any attempt of that task having been made in the step.
C29_ConnectOrder ==
    /\ [](/\ \A n \in 1..Len(ct_tried) :
                /\ ct_tried[n].addr =
                        IF n = 1 THEN DirectAddr ELSE stun_results[n - 1]
                /\ n < Len(ct_tried) => ~ct_tried[n].ok
          /\ Len(ct_tried) <= 1 + Len(stun_results)
          /\ ct.result = "True" =>
                Len(ct_tried) >= 1 /\ ct_tried[Len(ct_tried)].ok
          /\ ct.result = "False" =>
                /\ Len(ct_tried) = 1 + Len(stun_results)
                /\ \A n \in 1..Len(ct_tried) : ~ct_tried[n].ok
          /\ (ct.stage = "try" /\ ct_tried # <<>>) =>
                ~ct_tried[Len(ct_tried)].ok)
    /\ [][ (ct.stage = "try" /\ ct'.stage = "returned" /\ ct'.result = "False") =>
                /\ ct.peer_id \in reconnect_tasks'
                /\ \/ /\ ct.peer_id \in reconnect_tasks
                      /\ loop' = loop
                   \/ /\ ct.peer_id \notin reconnect_tasks
                      /\ loop'[ct.peer_id].stage = "sleep"
                      /\ loop'[ct.peer_id].attempts = 0
                /\ UNCHANGED <<cm_peers, sock>>
      ]_vars

\* a call with two different cached bindings has failed on all three
\* addresses and returned False with the peer's reconnection loop asleep
\* before its first attempt
C29_Witness ==
    /\ Len(stun_results) = 2 /\ stun_results[1] # stun_results[2]
    /\ ct.stage = "returned" /\ ct.result = "False"
    /\ Len(ct_tried) = 3
    /\ loop[ct.peer_id].stage = "sleep" /\ loop[ct.peer_id].attempts = 0

\* a call has returned True from the second cached binding
C29_WitnessStun ==
    /\ ct.stage = "returned" /\ ct.result = "True"
    /\ Len(ct_tried) = 3
    /\ \E s \in Socks : cm_peers[ct.peer_id] = s /\ kind[s] = "stun"


(* ---- C21 ---- *)
\* C21: for the address a and port p of the binding, the parse of an IPv4
\* XOR-MAPPED-ADDRESS whose port field is p XOR (0x2112A442 >> 16) and whose
\* address field is a XOR 0x2112A442 returns exactly (a, p), with the port
\* in 0..65535.
C21_XorUnmasking ==
    (/\ xa_res # Unparsed
     /\ Len(xa_data) = 8
     /\ xa_data[2] = 1) =>
        /\ xa_res = [ip |-> xa_addr, port |-> xa_port]
        /\ xa_res.port \in 0..65535

\* 255.255.255.255 port 65535 was parsed from its attribute, whose fields
\* differ from the address and port in every bit the cookie has set
C21_Witness ==
    /\ xa_addr = <<255, 255, 255, 255>> /\ xa_port = 65535
    /\ xa_data = <<0, 1, 222, 237, 222, 237, 91, 189>>
    /\ xa_res = [ip |-> <<255, 255, 255, 255>>, port |-> 65535]


(* ---- C22 ---- *)
\* C22: an IP is in the permission set only if a create_permission call for
\* it received a CreatePermission success response, and is added in the step
\* in which such a call returns True; a send_data call hands a Send
\* Indication for its peer to the socket and returns True only with an
\* allocation in place and such a create_permission for the peer's IP
\* before; a send_data call that returns False hands nothing to the socket,
\* and one whose guards fail returns False at once.
C22_PermissionBeforeSend ==
    /\ [](\A ip \in permissions : ip \in cp_granted)
    /\ [][ /\ \A m \in {turn_sent'[n] : n \in 1..Len(turn_sent')} :
                m.type = "SEND_INDICATION" =>
                    /\ relayed_addr # Absent
                    /\ m.peer \in cp_granted
                    /\ \E k \in TurnCalls :
                            /\ tc[k].op = "send_data" /\ tc[k].ip = m.peer
                            /\ tc[k].stage = "send"
                            /\ tc'[k].stage = "returned"
                            /\ tc'[k].result = "True"
           /\ \A k \in TurnCalls :
                (/\ tc'[k] # tc[k] /\ tc'[k].op = "send_data"
                 /\ tc'[k].stage = "returned") =>
                    IF tc'[k].result = "True"
                    THEN /\ relayed_addr # Absent
                         /\ tc'[k].ip \in cp_granted
                         /\ turn_sent' = <<SendIndication(tc'[k].ip)>>
                    ELSE turn_sent' = <<>>
           /\ \A k \in TurnCalls, ip \in TurnIPs :
                (send_data(k, ip) /\ (relayed_addr = Absent \/ ip \notin cp_granted)) =>
                    tc'[k].stage = "returned" /\ tc'[k].result = "False"
           /\ permissions' # permissions =>
                \E k \in TurnCalls :
                    /\ tc[k].op = "create_permission" /\ tc[k].stage = "recv"
                    /\ tc'[k].stage = "returned" /\ tc'[k].result = "True"
                    /\ permissions' = permissions \cup {tc[k].ip}
      ]_vars

\* with an allocation and a permission for ip1 only, a send_data to ip1 has
\* returned True and one to ip2 has returned False
C22_Witness ==
    /\ relayed_addr # Absent
    /\ permissions = {"ip1"}
    /\ tc[1] = [op |-> "send_data", stage |-> "returned", ip |-> "ip1", result |-> "True"]
    /\ tc[2] = [op |-> "send_data", stage |-> "returned", ip |-> "ip2", result |-> "False"]


(* ---- C23 ---- *)
\* C23: the receipt of an announce this node broadcast itself leaves the
\* active-node map as it is, and the receipt of an announce of another node
\* with a port writes {ip, port, last_seen = now} under that node's address
\* and nothing else.
C23_IgnoreSelfAnnounce ==
    [][ /\ ListenOwn => active_nodes' = active_nodes
        /\ \A d \in Datagrams :
                (ListenOther(d) /\ d.type = "announce" /\ d.port \in NodePorts \ {0}) =>
                    active_nodes' = [active_nodes EXCEPT ![<<d.src, d.port>>] =
                        [ip |-> d.src, port |-> d.port,
                         last_seen |-> [kind |-> "float", t |-> d_now]]]
      ]_vars

(* ---- C24 ---- *)
\* C24: a get_active_nodes call returns exactly the entries of the map whose
\* last_seen is less than node_timeout before the time of the call, and
\* leaves exactly those entries in the map.
C24_ReadFilter ==
    [][ get_active_nodes =>
            LET young == {a \in Known : d_now - active_nodes[a].last_seen.t < node_timeout}
            IN  /\ d_result' = [raised |-> "no",
                                nodes |-> {active_nodes[a] : a \in young}]
                /\ active_nodes' = [a \in NodeAddrs |->
                        IF a \in young THEN active_nodes[a] ELSE NoNode]
      ]_vars

(* ---- C31 ---- *)
\* C31: a stop() call never ends in an exception, and once it has returned
\* the server is closed and no open websocket is left in connected_peers,
\* whatever the connection handlers did while it was suspended.
C31_StopCompletes ==
    /\ nt_stop.pc # "raised"
    /\ nt_stop.pc = "returned" =>
            /\ nt_server = "closed"
            /\ NTKeys(nt_peers) = {}

(* ---- C32 ---- *)
\* C32: while no stop() is running, connected_peers and heartbeat_tasks have
\* the same keys, every open authenticated connection is the one stored
\* under its id, the heartbeat task of every stored open connection runs,
\* and a running heartbeat task is the one of a stored connection.
C32_TableConsistency ==
    nt_stop.pc = "idle" =>
        /\ NTKeys(nt_peers) = NTKeys(nt_tasks)
        /\ \A c \in NMConns :
                /\ (nt_ws[c] = "open" /\ nt_id[c] # Absent) => nt_peers[nt_id[c]] = c
                /\ nt_hb[c] = "running" =>
                        nt_peers[nt_id[c]] = c /\ nt_tasks[nt_id[c]] = c
        /\ \A i \in NMIds :
                (nt_peers[i] # NoConn /\ nt_ws[nt_peers[i]] = "open") =>
                    nt_hb[nt_peers[i]] = "running"

(* ---- C40 ---- *)
\* the ports start() may probe
ProbeRange == BasePort .. (BasePort + max_attempts - 1)

\* C40: the ports probed are 8000, 8001, ... in this order, at most 100 of
\* them; the port the listener is started on is the lowest port of that
\* range that can be bound; start() fails with the no-port error exactly
\* when no port of the range can be bound, and then no listener exists.
C40_PortProbing ==
    /\ Len(pp_probed) <= max_attempts
    /\ \A k \in 1..Len(pp_probed) : pp_probed[k] = BasePort + k - 1
    /\ pp_pc \in {"serve", "listening", "serve_failed"} =>
            /\ pp_port \in pp_bindable
            /\ pp_port \in ProbeRange
            /\ pp_port = pp_probed[Len(pp_probed)]
            /\ \A q \in ProbeRange : q < pp_port => q \notin pp_bindable
    /\ pp_pc = "no_port" =>
            /\ ProbeRange \cap pp_bindable = {}
            /\ Len(pp_probed) = max_attempts
            /\ ~pp_server
    /\ pp_server => pp_pc = "listening"

\* all 100 ports are taken and the 101st is free: start() has failed
C40_Witness ==
    /\ pp_pc = "no_port"
    /\ Len(pp_probed) = max_attempts
    /\ 8100 \in pp_bindable

(* ---- C33 ---- *)
\* C33: a send_message that finds no live connection calls
\* _establish_connection once; when that fails the call returns False, no
\* second call is made, and the table has no live entry for the peer.
C33_OneEstablishment ==
    /\ es_calls <= 1
    /\ es_pc # "idle" => es_calls = 1
    /\ es_result = "False" =>
            /\ es_pc = "returned"
            /\ NotConnected(es_entry)
    /\ (es_pc \in {"connect", "reply"}) => NotConnected(es_entry)

\* the establishment reached a listener that did not answer with an
\* auth_reply, and send_message has returned False
C33_Witness ==
    /\ es_result = "False"
    /\ \E p \in EstPorts : es_writer[p] # "none"

(* ---- C34 ---- *)
\* C34: when the establishment has connected to a listening Connection
\* Manager and sent its auth frame, the manager admits it and answers, and
\* the send_message eventually returns True with the connection in the table
\* and the message delivered to the manager's handler.
C34_HandshakeCompletes ==
    (es_pc = "reply" /\ es_host[es_port] = "manager")
        ~> (/\ es_result = "True"
            /\ es_entry \in EstPorts
            /\ es_host[es_entry] = "manager"
            /\ es_handled[es_entry])

(* ---- C35 ---- *)
\* the bindings among the first n servers queried
SBSuccesses(n) ==
    Cardinality({k \in 1..n : sb_outcome[k] = "binding"})

C36_TwoStepAllocation ==
    \A c \in TurnClients :
        /\ (\/ ta_relayed[c] # Absent
            \/ ta_pc[c] = "returned"
            \/ ta_allocate[c] = "allocation") =>
                /\ ta_sent[c] = << {"REQUESTED-TRANSPORT"},
                                   {"REQUESTED-TRANSPORT", "USERNAME", "REALM",
                                    "NONCE", "MESSAGE-INTEGRITY"} >>
                /\ ta_answers[c] = <<"error_realm_nonce", "success_relayed">>
                /\ ta_relayed[c] # Absent
                /\ ta_pc[c] = "returned"
        /\ (/\ ta_answers[c] # <<>>
            /\ ta_answers[c][Len(ta_answers[c])] \notin
                    {"error_realm_nonce", "success_relayed"}) =>
                ta_pc[c] = "raised"
        /\ ta_pc[c] = "raised" => ta_relayed[c] = Absent
        /\ Len(ta_sent[c]) <= 2
        /\ Len(ta_sent[c]) <= Len(ta_answers[c]) + 1
        /\ Len(ta_sent[c]) = 2 => ta_answers[c][1] = "error_realm_nonce"

\* the connect() of a client has returned with a relayed address, and the
\* one of another client has failed on its second answer
C36_Witness ==
    /\ ta_pc[1] = "returned"
    /\ ta_relayed[1] = "relay"
    /\ ta_pc[2] = "raised"
    /\ Len(ta_answers[2]) = 2

(* ---- C37 ---- *)
\* C37: no step cancels a task of another component: a task that is not the
\* discovery's broadcast or listen task changes only by being created or by
\* ending by itself, and stop() leaves it as it was.
C37_StopFrame ==
    [][\A t \in OtherTasks :
            /\ ds_task'[t] = "cancelled" => ds_task[t] = "cancelled"
            /\ ds_pc' # ds_pc => ds_task'[t] = ds_task[t]]_vars

(* ---- C38 ---- *)
\* C38: get_binding returns a binding only from a Binding Response that
\* carries the transaction id of the request it sent.
C38_TransactionMatch ==
    gb_result = "binding" =>
        /\ gb_response.message_type = "BINDING_RESPONSE"
        /\ gb_response.transaction_id = gb_request

(* ---- C39 ---- *)
\* the frames written in a step that name a sender carry the id i
SenderIs(out, i) ==
    \A k \in 1..Len(out) :
        out[k].frame.type \in {"data", "peer_connected", "peer_disconnected"} =>
            out[k].frame.peer_id = i

====
